---------------------------- MODULE Spec2Model ----------------------------
(***************************************************************************)
(* A model of the location-resolution pipeline of abxgeo: the asyncio      *)
(* RateLimiter (src/abxgeo/rate_limiter.py), the GeocoderCascade            *)
(* (src/abxgeo/geocoder.py) and LocationResolver.resolve_async              *)
(* (src/abxgeo/resolver.py).                                                *)
(*                                                                         *)
(* Time is counted in ticks, TicksPerSecond ticks to the second.  A        *)
(* reading of time.time() returns the current tick; two readings are made  *)
(* in different turns of the event loop, and a turn lasts longer than the  *)
(* resolution of the clock, so a reading is always later than the one      *)
(* before it (lastRead).                                                   *)
(***************************************************************************)
EXTENDS Integers, Sequences, FiniteSets, TLC

VARIABLES
    clock,      \* the wall clock, in ticks
    lastRead,   \* the value the latest time.time() call returned
    limiters,   \* RateLimiter objects by name: semaphore value, rate, request_times
    admitLog,   \* per limiter, the timestamps of its latest admissions (history)
    clients,    \* tasks that use one limiter directly (acquire ... release)
    google,     \* GeocoderCascade.google is set (an API key was configured)
    rt,         \* the resolve_async tasks
    geo,        \* a call of GeocoderCascade: geocode, reverse_geocode, precision
    skip,       \* a call of should_skip_resolution: its arguments and answer
    store,      \* the story_locations table, by (story_id, loc_idx)
    run,        \* a run of a driver: its options, candidates and counts
    jobs,       \* the driver's tasks, one per offered location
    persisted,  \* the persist_resolution calls made so far (history)
    dataset,    \* the groups DBSCAN finds in the resolved locations
    clusterTable, \* the rows of the location_clusters table
    ccmd,       \* a run of a cluster command
    saveLog,    \* the save_cluster calls made so far (history)
    writers,    \* persist_resolution calls of concurrent processes
    sync,       \* a call of the synchronous resolve beside the resolve_async task
    cache,      \* the rows of the geocode_cache table
    web         \* the WebHarvester: its calls and the cache's history

vars == <<clock, lastRead, limiters, admitLog, clients, google, rt, geo, skip,
          store, run, jobs, persisted, dataset, clusterTable, ccmd, saveLog,
          writers, sync, cache, web>>

\* The variables of the geocoder calls, the store and the drivers.
driverVars == <<geo, skip, store, run, jobs, persisted>>

\* The variables of clustering.
clusterVars == <<dataset, clusterTable, ccmd, saveLog>>

\* No clustering: nothing is clustered and there is no cluster table.
NoClustering ==
    /\ dataset = <<>>
    /\ clusterTable = {}
    /\ ccmd = <<>>
    /\ saveLog = <<>>

\* No process writes to the table beside the one modelled.
NoWriters == writers = <<>>

\* The variables of the synchronous resolve and of the WebHarvester.
laterVars == <<sync, cache, web>>

\* No synchronous call is made beside the task.
NoSync == sync = <<>>

\* No WebHarvester: there is no geocode_cache table.
NoHarvest ==
    /\ cache = {}
    /\ web = <<>>

---------------------------------------------------------------------------
(* Bounds of the model *)

TicksPerSecond == 2
MaxTime == 7
MaxTimeConcurrent == 4
NumClients == 3
MaxConcurrent == 2
MaxRps == 2
NumTasks == 2
NumLocations == 2

(* Program constants *)

OPENAI_MAX_CONCURRENT == 10
GOOGLE_MAPS_MAX_CONCURRENT == 50
NOMINATIM_MAX_CONCURRENT == 1
NOMINATIM_RPS == 1

Clients == 1..NumClients
Tasks == 1..NumTasks

\* The one-second window of acquire ("cutoff = now - 1.0"), in ticks.
Window == TicksPerSecond

\* Python's None.
None == "None"

---------------------------------------------------------------------------
(* RateLimiter *)

\* RateLimiter.__init__: requests_per_second 0 stands for None (both are
\* false in "if self.requests_per_second").
RateLimiter(max_concurrent, requests_per_second) ==
    [value |-> max_concurrent,
     max_concurrent |-> max_concurrent,
     requests_per_second |-> requests_per_second,
     request_times |-> <<>>]

\* "while self.request_times and self.request_times[0] < cutoff: popleft()"
RECURSIVE Prune(_, _)
Prune(times, cutoff) ==
    IF times # <<>> /\ Head(times) < cutoff
    THEN Prune(Tail(times), cutoff)
    ELSE times

\* asyncio.Semaphore.acquire returns only while the value is positive.
SemFree_NoCheck(lim) == TRUE
SemFree(lim) == lim.value > 0

\* "if self.requests_per_second:"
HasRate(lim) == lim.requests_per_second # 0

\* "sleep_time = 1.0 - (now - self.request_times[0])" when the window is
\* full, 0 when it is not (no sleep).
SleepTime_None(times, rps, now) == 0
SleepTime(times, rps, now) ==
    IF Len(times) >= rps
    THEN Window - (now - Head(times))
    ELSE 0

\* acquire, from the semaphore to the sleep or to the append: the limiter
\* afterwards and the time to sleep (0: admitted at once).
AcquireStep(lim, now) ==
    LET taken == [lim EXCEPT !.value = @ - 1] IN
    IF ~HasRate(lim)
    THEN [lim |-> taken, sleep |-> 0]
    ELSE LET pruned == Prune(lim.request_times, now - Window)
             sleep_time == SleepTime(pruned, lim.requests_per_second, now)
         IN IF sleep_time > 0
            THEN [lim |-> [taken EXCEPT !.request_times = pruned],
                  sleep |-> sleep_time]
            ELSE [lim |-> [taken EXCEPT !.request_times = Append(pruned, now)],
                  sleep |-> 0]

\* acquire after "await asyncio.sleep(sleep_time)": "now = time.time()" and
\* "self.request_times.append(now)".
AfterSleep(lim, now) == [lim EXCEPT !.request_times = Append(@, now)]

\* release: "self.semaphore.release()".
ReleaseStep_Keep(lim) == lim
ReleaseStep(lim) == [lim EXCEPT !.value = @ + 1]

\* History: the latest requests_per_second + 1 admission timestamps.
Logged(log, rps, now) ==
    LET all == Append(log, now) IN
    IF Len(all) > rps + 1 THEN Tail(all) ELSE all

---------------------------------------------------------------------------
(* Python values *)

\* Truth value of an optional string: None and "" are false.
Truthy(s) == s # None /\ s # ""

\* json.dumps of a dict: the members in insertion order, each value as its
\* JSON text.
JsonStr(s) == "\"" \o s \o "\""
JsonOpt(s) == IF s = None THEN "null" ELSE JsonStr(s)
JsonBool_False(b) == "false"
JsonBool(b) == IF b THEN "true" ELSE "false"
RECURSIVE JsonItems(_)
JsonItems(list) ==
    IF list = <<>> THEN ""
    ELSE IF Len(list) = 1 THEN JsonStr(Head(list))
    ELSE JsonStr(Head(list)) \o ", " \o JsonItems(Tail(list))
JsonList(list) == "[" \o JsonItems(list) \o "]"
JsonDumps(members) == members

\* The keys of a dumped object and the text stored under one of them.
JsonKeys(obj) == {obj[i][1] : i \in DOMAIN obj}
JsonGet(obj, key) ==
    LET i == CHOOSE j \in DOMAIN obj : obj[j][1] = key IN obj[i][2]

---------------------------------------------------------------------------
(* GeocoderCascade *)

\* What a provider's geocode call gives: no Location, an exception, or a
\* Location (address, latitude, longitude, raw).
NoLocation == [kind |-> "none"]
ProviderError == [kind |-> "error"]

NominatimLocations ==
    { [kind |-> "location",
       address |-> "2066, Crist Drive, Los Altos, California, United States",
       latitude |-> "37.3688", longitude |-> "-122.1088",
       raw |-> [type |-> "house",
                address |-> {"house_number", "road", "city", "state", "country"}]],
      [kind |-> "location",
       address |-> "Cupertino, Santa Clara County, California, United States",
       latitude |-> "37.3229", longitude |-> "-122.0322",
       raw |-> [type |-> "administrative",
                address |-> {"city", "state", "country"}]] }

GoogleLocations ==
    { [kind |-> "location",
       address |-> "2066 Crist Dr, Los Altos, CA 94024, USA",
       latitude |-> "37.3400", longitude |-> "-122.0700",
       raw |-> [location_type |-> "ROOFTOP", types |-> {"street_address"}]],
      [kind |-> "location",
       address |-> "California, USA",
       latitude |-> "36.7783", longitude |-> "-119.4179",
       raw |-> [location_type |-> "GEOMETRIC_CENTER",
                types |-> {"administrative_area_level_1", "political"}]] }

NominatimOutcomes == {NoLocation, ProviderError} \cup NominatimLocations
GoogleOutcomes == {NoLocation, ProviderError} \cup GoogleLocations

\* _determine_precision_nominatim
DeterminePrecisionNominatim(raw) ==
    IF "house_number" \in raw.address \/ raw.type = "house" THEN "address"
    ELSE IF "road" \in raw.address \/ raw.type \in {"road", "street"} THEN "street"
    ELSE IF raw.address \cap {"city", "town", "village"} # {} THEN "city"
    ELSE IF raw.address \cap {"state", "region"} # {} THEN "region"
    ELSE IF "country" \in raw.address THEN "country"
    ELSE "city"

\* _determine_precision_google: a GEOMETRIC_CENTER with none of the listed
\* component types falls through to the default.
DeterminePrecisionGoogle(raw) ==
    IF raw.location_type = "ROOFTOP" THEN "address"
    ELSE IF raw.location_type = "RANGE_INTERPOLATED" THEN "street"
    ELSE IF raw.location_type = "GEOMETRIC_CENTER" THEN
         IF raw.types \cap {"street_address", "premise"} # {} THEN "address"
         ELSE IF "route" \in raw.types THEN "street"
         ELSE IF raw.types \cap {"locality", "postal_town"} # {} THEN "city"
         ELSE IF "administrative_area_level_1" \in raw.types THEN "region"
         ELSE IF "country" \in raw.types THEN "country"
         ELSE "city"
    ELSE "city"

\* geocode's "None" result.
NoGeocode ==
    [address |-> None, lat |-> None, lon |-> None, precision |-> None,
     source |-> None]

\* "if geocode_result"
Found_Always(geocode_result) == TRUE
Found(geocode_result) == geocode_result.source # None

\* _try_nominatim: an exception of the provider is caught and gives None.
TryNominatim(outcome) ==
    IF outcome.kind # "location" THEN NoGeocode
    ELSE [address |-> outcome.address,
          lat |-> outcome.latitude,
          lon |-> outcome.longitude,
          precision |-> DeterminePrecisionNominatim(outcome.raw),
          source |-> "nominatim"]

\* _try_google
TryGoogle(outcome) ==
    IF outcome.kind # "location" THEN NoGeocode
    ELSE [address |-> outcome.address,
          lat |-> outcome.latitude,
          lon |-> outcome.longitude,
          precision |-> DeterminePrecisionGoogle(outcome.raw),
          source |-> "google"]

---------------------------------------------------------------------------
(* LocationResolver: what the LLM capabilities answer *)

\* The arguments of resolve_async that it reads itself (note, geo_precision,
\* story_title and story_summary are only handed on to the LLM).
Locations ==
    { [story_id |-> "book1_s1", loc_idx |-> 0, place_name |-> "United States",
       place_type |-> "country", lat |-> None, lon |-> None],
      [story_id |-> "book1_s1", loc_idx |-> 1,
       place_name |-> "Cupertino, California",
       place_type |-> "city", lat |-> "37.3", lon |-> "-122.0"],
      [story_id |-> "book1_s2", loc_idx |-> 0, place_name |-> "the garage",
       place_type |-> None, lat |-> None, lon |-> None] }

\* "classification = None"
NoClassification_Skip ==
    [category |-> "skip", reason |-> None, simple_address |-> None,
     estimated_precision |-> None]
NoClassification ==
    [category |-> None, reason |-> None, simple_address |-> None,
     estimated_precision |-> None]

\* What b.ClassifyLocation returns.
Classifications ==
    { [category |-> "skip", reason |-> "too vague", simple_address |-> None,
       estimated_precision |-> None],
      [category |-> "research", reason |-> "needs research",
       simple_address |-> None, estimated_precision |-> None] }
    \cup
    [category : {"simple"}, reason : {"well known"},
     simple_address : {None, "", "Cupertino, CA"},
     estimated_precision : {None, "region"}]

\* What b.FindPreciseAddress returns.
AddressResolutions ==
    { [address |-> "2066 Crist Dr, Los Altos, CA 94024", lat |-> "37.36",
       lon |-> "-122.10", precision |-> "address", confidence |-> 90,
       source_url |-> "https://example.org/crist", source_snippet |-> "garage",
       is_residence |-> TRUE, corroboration |-> <<"two sources">>,
       concerns |-> <<>>],
      [address |-> "1 Infinite Loop, Cupertino, CA 95014", lat |-> "37.33",
       lon |-> "-122.03", precision |-> "street", confidence |-> 50,
       source_url |-> None, source_snippet |-> None,
       is_residence |-> FALSE, corroboration |-> <<>>,
       concerns |-> <<"single source">>],
      [address |-> None, lat |-> None, lon |-> None, precision |-> "region",
       confidence |-> 30, source_url |-> None, source_snippet |-> None,
       is_residence |-> FALSE, corroboration |-> <<>>,
       concerns |-> <<"no address found">>] }

\* Messages of the exceptions b.FindPreciseAddress raises, as words.
ErrorMessages ==
    { <<"Request", "Timeout">>, <<"Rate", "limit", "exceeded">>,
      <<"Connection", "reset", "by", "peer">>, <<"Invalid", "API", "key">> }

\* str.lower(), on the words above.
Lower(w) ==
    CASE w = "Request" -> "request"
      [] w = "Timeout" -> "timeout"
      [] w = "Rate" -> "rate"
      [] w = "Connection" -> "connection"
      [] w = "Invalid" -> "invalid"
      [] w = "API" -> "api"
      [] OTHER -> w

\* "needle in error_msg.lower()", on whole words.
Contains(msg, needle) ==
    \E i \in 1..Len(msg) :
        /\ i + Len(needle) - 1 <= Len(msg)
        /\ \A j \in 1..Len(needle) : Lower(msg[i + j - 1]) = needle[j]

\* is_retryable
IsRetryable_Always(msg) == TRUE
IsRetryable(msg) ==
    \/ Contains(msg, <<"broken", "pipe">>)
    \/ Contains(msg, <<"connection">>)
    \/ Contains(msg, <<"timeout">>)
    \/ Contains(msg, <<"rate", "limit">>)

---------------------------------------------------------------------------
(* LocationResolver: the Resolution records *)

\* Confidences are in hundredths: 0.2 and 0.85.
SKIP_CONFIDENCE == 20
SIMPLE_CONFIDENCE == 85
MAX_RETRIES == 3
RETRY_DELAY == 1
MAX_GEOCODE_RETRIES == 2
GEOCODE_DELAY == 1

\* "return None"
NullResolution == [is_null |-> TRUE]

\* The dict the skip tier returns.
SkipResolution(inp, classification, now) ==
    [is_null |-> FALSE,
     story_id |-> inp.story_id,
     loc_idx |-> inp.loc_idx,
     resolved_address |-> inp.place_name,
     resolved_lat |-> inp.lat,
     resolved_lon |-> inp.lon,
     resolved_precision |->
         IF inp.place_type = "country" THEN "country" ELSE "region",
     resolution_confidence |-> SKIP_CONFIDENCE,
     resolution_source |-> JsonDumps(<<
         <<"tier", JsonStr("skip")>>,
         <<"reason", JsonOpt(classification.reason)>>,
         <<"url", JsonStr("N/A")>>,
         <<"snippet", JsonStr("N/A")>>,
         <<"geocoder", "null">>,
         <<"is_residence", JsonBool(FALSE)>>,
         <<"corroboration", JsonList(<<>>)>>,
         <<"concerns", JsonList(<<"Location too vague - insufficient context for specific address">>)>> >>),
     resolved_at |-> now]

\* "classification.estimated_precision or 'city'"
EstimatedOrCity_CityOnly(classification) == "city"
EstimatedOrCity(classification) ==
    IF Truthy(classification.estimated_precision)
    THEN classification.estimated_precision
    ELSE "city"

\* The dict the simple tier returns.
SimpleResolution(inp, classification, geocode_result, now) ==
    [is_null |-> FALSE,
     story_id |-> inp.story_id,
     loc_idx |-> inp.loc_idx,
     resolved_address |->
         IF Found(geocode_result) THEN geocode_result.address
         ELSE classification.simple_address,
     resolved_lat |->
         IF Found(geocode_result) THEN geocode_result.lat ELSE inp.lat,
     resolved_lon |->
         IF Found(geocode_result) THEN geocode_result.lon ELSE inp.lon,
     resolved_precision |->
         IF Found(geocode_result) THEN geocode_result.precision
         ELSE EstimatedOrCity(classification),
     resolution_confidence |-> SIMPLE_CONFIDENCE,
     resolution_source |-> JsonDumps(<<
         <<"tier", JsonStr("simple")>>,
         <<"reason", JsonOpt(classification.reason)>>,
         <<"url", JsonStr("N/A (well-known location)")>>,
         <<"snippet", JsonStr("N/A")>>,
         <<"geocoder", JsonOpt(geocode_result.source)>>,
         <<"is_residence", JsonBool(FALSE)>>,
         <<"corroboration", JsonList(<<>>)>>,
         <<"concerns", JsonList(<<>>)>> >>),
     resolved_at |-> now]

\* The dict the research tier returns ("Step 3: Build resolution result").
ResearchResolution(inp, address_resolution, geocode_result, now) ==
    [is_null |-> FALSE,
     story_id |-> inp.story_id,
     loc_idx |-> inp.loc_idx,
     resolved_address |-> address_resolution.address,
     resolved_lat |->
         IF Found(geocode_result) THEN geocode_result.lat
         ELSE address_resolution.lat,
     resolved_lon |->
         IF Found(geocode_result) THEN geocode_result.lon
         ELSE address_resolution.lon,
     resolved_precision |->
         IF Found(geocode_result) THEN geocode_result.precision
         ELSE address_resolution.precision,
     resolution_confidence |-> address_resolution.confidence,
     resolution_source |-> JsonDumps(<<
         <<"url", JsonOpt(address_resolution.source_url)>>,
         <<"snippet", JsonOpt(address_resolution.source_snippet)>>,
         <<"geocoder", JsonOpt(geocode_result.source)>>,
         <<"is_residence", JsonBool(address_resolution.is_residence)>>,
         <<"corroboration", JsonList(address_resolution.corroboration)>>,
         <<"concerns", JsonList(address_resolution.concerns)>> >>),
     resolved_at |-> now]

---------------------------------------------------------------------------
(* The clock *)

Tick(horizon) ==
    /\ clock < horizon
    /\ clock' = clock + 1
    /\ UNCHANGED <<lastRead, limiters, admitLog, clients, google, rt, driverVars, clusterVars, writers, laterVars>>

\* A reading of time.time(): later than the reading before it.
CanRead == clock > lastRead

---------------------------------------------------------------------------
(* Tasks using one RateLimiter directly *)

\* No geocoder call, no table and no driver: the limiter and resolve_async
\* are used on their own.
NoDrivers ==
    /\ geo = <<>>
    /\ skip = <<>>
    /\ store = <<>>
    /\ run = <<>>
    /\ jobs = <<>>
    /\ persisted = {}
    /\ NoClustering
    /\ NoWriters
    /\ NoHarvest

RLInit ==
    /\ clock = 0
    /\ lastRead = 0
    /\ \E m \in 1..MaxConcurrent, r \in 0..MaxRps :
          limiters = [l \in {"rl"} |-> RateLimiter(m, r)]
    /\ admitLog = [l \in {"rl"} |-> <<>>]
    /\ clients = [c \in Clients |-> [pc |-> "idle", wake |-> 0]]
    /\ google = FALSE
    /\ rt = <<>>
    /\ NoDrivers
    /\ NoSync

\* acquire() up to its first suspension after the semaphore.
ClientAcquire(c) ==
    LET lim == limiters["rl"] IN
    /\ clients[c].pc = "idle"
    /\ SemFree(lim)
    /\ IF HasRate(lim)
       THEN /\ CanRead
            /\ lastRead' = clock
            /\ LET a == AcquireStep(lim, clock) IN
               /\ limiters' = [limiters EXCEPT !["rl"] = a.lim]
               /\ IF a.sleep > 0
                  THEN /\ clients' = [clients EXCEPT ![c] =
                              [pc |-> "sleeping", wake |-> clock + a.sleep]]
                       /\ UNCHANGED admitLog
                  ELSE /\ clients' = [clients EXCEPT ![c] =
                              [pc |-> "admitted", wake |-> 0]]
                       /\ admitLog' = [admitLog EXCEPT !["rl"] =
                              Logged(@, lim.requests_per_second, clock)]
       ELSE /\ limiters' = [limiters EXCEPT !["rl"] = AcquireStep(lim, clock).lim]
            /\ clients' = [clients EXCEPT ![c] = [pc |-> "admitted", wake |-> 0]]
            /\ UNCHANGED <<lastRead, admitLog>>
    /\ UNCHANGED <<clock, google, rt, driverVars, clusterVars, writers, laterVars>>

\* acquire() resumes from asyncio.sleep and records the request.
ClientWake(c) ==
    /\ clients[c].pc = "sleeping"
    /\ clock >= clients[c].wake
    /\ CanRead
    /\ lastRead' = clock
    /\ limiters' = [limiters EXCEPT !["rl"] = AfterSleep(@, clock)]
    /\ admitLog' = [admitLog EXCEPT !["rl"] =
           Logged(@, limiters["rl"].requests_per_second, clock)]
    /\ clients' = [clients EXCEPT ![c] = [pc |-> "admitted", wake |-> 0]]
    /\ UNCHANGED <<clock, google, rt, driverVars, clusterVars, writers, laterVars>>

\* release() by a task that was admitted.
ClientRelease(c) ==
    /\ clients[c].pc = "admitted"
    /\ limiters' = [limiters EXCEPT !["rl"] = ReleaseStep(@)]
    /\ clients' = [clients EXCEPT ![c] = [pc |-> "idle", wake |-> 0]]
    /\ UNCHANGED <<clock, lastRead, admitLog, google, rt, driverVars, clusterVars, writers, laterVars>>

RLNext ==
    \/ Tick(MaxTime)
    \/ \E c \in Clients : ClientAcquire(c)
    \/ \E c \in Clients : ClientWake(c)
    \/ \E c \in Clients : ClientRelease(c)

SpecRL == RLInit /\ [][RLNext]_vars

---------------------------------------------------------------------------
(* LocationResolver.resolve_async, one task per call *)

\* A call's locals, with the history of what it did: the calls it made,
\* the delays it slept (sleeps, geo_sleeps), how each address lookup ended
\* (find_log: <<"ok">> or the message of the exception) and how each
\* geocode call ended (geo_log: "found", "none" or "raised").
NewTask(loc) ==
    [pc |-> "start",
     inp |-> loc,
     classification |-> NoClassification,
     classify_raised |-> FALSE,
     attempt |-> 0,
     retry_delay |-> RETRY_DELAY,
     geocode_delay |-> GEOCODE_DELAY,
     address_resolution |-> [address |-> None],
     geocode_result |-> NoGeocode,
     holding |-> None,
     resume |-> None,
     wake |-> 0,
     result |-> NullResolution,
     calls |-> [classify |-> 0, find |-> 0, geocode |-> 0, google |-> 0,
                nominatim |-> 0],
     sleeps |-> <<>>,
     geo_sleeps |-> <<>>,
     find_log |-> <<>>,
     geo_log |-> <<>>]

\* The module-level limiters of rate_limiter.py.
GlobalLimiters ==
    [l \in {"openai", "google", "nominatim"} |->
        CASE l = "openai" -> RateLimiter(OPENAI_MAX_CONCURRENT, 0)
          [] l = "google" -> RateLimiter(GOOGLE_MAPS_MAX_CONCURRENT, 0)
          [] l = "nominatim" ->
                RateLimiter(NOMINATIM_MAX_CONCURRENT, NOMINATIM_RPS)]

\* "if self.geocoder.google: async with GOOGLE_MAPS_LIMITER ... else:
\* async with NOMINATIM_LIMITER"
GeocodeLimiter == IF google THEN "google" ELSE "nominatim"

\* geocode() starts with Google when it is configured.
FirstProvider == IF google THEN "geo_google" ELSE "geo_nominatim"

\* The awaited call has started: count it (geocode() once, however many
\* providers it goes on to ask).
Entered(task, l, call) ==
    [task EXCEPT
        !.pc = call,
        !.holding = l,
        !.calls = [@ EXCEPT
            !.classify = IF call = "classify" THEN @ + 1 ELSE @,
            !.find = IF call = "find" THEN @ + 1 ELSE @,
            !.geocode = IF call = FirstProvider /\ task.pc # "geo_google"
                        THEN @ + 1 ELSE @,
            !.google = IF call = "geo_google" THEN @ + 1 ELSE @,
            !.nominatim = IF call = "geo_nominatim" THEN @ + 1 ELSE @]]

\* "async with <limiter l>:" entered by task t, which then starts `call`.
Acquire(t, l, call) ==
    LET lim == limiters[l]
        a == AcquireStep(lim, clock)
    IN /\ SemFree(lim)
       /\ HasRate(lim) => CanRead
       /\ lastRead' = IF HasRate(lim) THEN clock ELSE lastRead
       /\ limiters' = [limiters EXCEPT ![l] = a.lim]
       /\ IF a.sleep > 0
          THEN /\ rt' = [rt EXCEPT ![t] = [@ EXCEPT
                     !.pc = "rate_sleep", !.holding = l, !.resume = call,
                     !.wake = clock + a.sleep]]
               /\ UNCHANGED admitLog
          ELSE /\ rt' = [rt EXCEPT ![t] = Entered(@, l, call)]
               /\ admitLog' =
                     IF HasRate(lim)
                     THEN [admitLog EXCEPT ![l] =
                              Logged(@, lim.requests_per_second, clock)]
                     ELSE admitLog
       /\ UNCHANGED <<clock, clients, google, driverVars, clusterVars, writers, laterVars>>

\* acquire() resumes from its asyncio.sleep: the request is recorded and
\* the awaited call starts.
RateWake(t) ==
    LET l == rt[t].holding IN
    /\ rt[t].pc = "rate_sleep"
    /\ clock >= rt[t].wake
    /\ CanRead
    /\ lastRead' = clock
    /\ limiters' = [limiters EXCEPT ![l] = AfterSleep(@, clock)]
    /\ admitLog' = [admitLog EXCEPT ![l] =
           Logged(@, limiters[l].requests_per_second, clock)]
    /\ rt' = [rt EXCEPT ![t] = Entered([@ EXCEPT !.resume = None], l, @.resume)]
    /\ UNCHANGED <<clock, clients, google, driverVars, clusterVars, writers, laterVars>>

\* "return <value>": the locals of the call are gone, its history stays.
Return(task, value) ==
    [task EXCEPT !.pc = "done", !.result = value, !.attempt = 0,
                 !.retry_delay = RETRY_DELAY, !.geocode_delay = GEOCODE_DELAY,
                 !.wake = 0]

\* After the classification: the skip tier returns, the simple tier goes
\* to geocode simple_address, everything else is the research tier.
IsSkip_Never(task) == FALSE
IsSkip(task) == task.classification.category = "skip"
IsSimple(task) ==
    /\ task.classification.category = "simple"
    /\ Truthy(task.classification.simple_address)

Dispatch(task, now) ==
    IF IsSkip(task)
    THEN Return(task, SkipResolution(task.inp, task.classification, now))
    ELSE IF IsSimple(task)
    THEN [task EXCEPT !.pc = "geo_acquire"]
    ELSE [task EXCEPT !.pc = "find_acquire", !.attempt = 0,
                      !.retry_delay = RETRY_DELAY]

\* "async with OPENAI_LIMITER: classification = await b.ClassifyLocation(...)"
ClassifyBegin(t) ==
    /\ rt[t].pc = "start"
    /\ Acquire(t, "openai", "classify")

\* The limiter is released when the body of "async with" is left.
Released(l) == [limiters EXCEPT ![l] = ReleaseStep(@)]

\* ClassifyLocation returns a classification.
ClassifyReturn(t, answers) ==
    /\ rt[t].pc = "classify"
    /\ \E c \in answers :
          rt' = [rt EXCEPT ![t] =
                    Dispatch([@ EXCEPT !.classification = c, !.holding = None],
                             clock)]
    /\ limiters' = Released("openai")
    /\ UNCHANGED <<clock, lastRead, admitLog, clients, google, driverVars, clusterVars, writers, laterVars>>

\* ClassifyLocation raises: "except Exception: classification = None".
ClassifyRaise(t) ==
    /\ rt[t].pc = "classify"
    /\ rt' = [rt EXCEPT ![t] =
                 Dispatch([@ EXCEPT !.classification = NoClassification,
                                    !.classify_raised = TRUE,
                                    !.holding = None],
                          clock)]
    /\ limiters' = Released("openai")
    /\ UNCHANGED <<clock, lastRead, admitLog, clients, google, driverVars, clusterVars, writers, laterVars>>

\* "async with OPENAI_LIMITER: address_resolution = await b.FindPreciseAddress(...)"
FindBegin(t) ==
    /\ rt[t].pc = "find_acquire"
    /\ Acquire(t, "openai", "find")

\* "Step 2": the geocode loop is entered only for a non-empty address.
AfterFind(task, now) ==
    IF Truthy(task.address_resolution.address)
    THEN [task EXCEPT !.pc = "geo_acquire", !.attempt = 0,
                      !.geocode_delay = GEOCODE_DELAY]
    ELSE Return(task, ResearchResolution(task.inp, task.address_resolution,
                                         task.geocode_result, now))

\* FindPreciseAddress returns: "break".
FindReturn(t, answers) ==
    /\ rt[t].pc = "find"
    /\ \E a \in answers :
          rt' = [rt EXCEPT ![t] =
                    AfterFind([@ EXCEPT !.address_resolution = a,
                                        !.holding = None,
                                        !.find_log = Append(@, <<"ok">>)],
                              clock)]
    /\ limiters' = Released("openai")
    /\ UNCHANGED <<clock, lastRead, admitLog, clients, google, driverVars, clusterVars, writers, laterVars>>

\* "if attempt < max_retries - 1 and is_retryable"
MayRetry(attempt, msg) == attempt < MAX_RETRIES - 1 /\ IsRetryable(msg)

\* "retry_delay *= 2"
NextDelay_Same(delay) == delay
NextDelay(delay) == delay * 2

\* The except branch of the address lookup: sleep and retry, or return None.
FindFailed(task, msg, now) ==
    LET logged == [task EXCEPT
            !.holding = None,
            !.find_log = Append(@, msg)]
    IN IF MayRetry(task.attempt, msg)
       THEN [logged EXCEPT
                !.pc = "find_backoff",
                !.wake = now + task.retry_delay * TicksPerSecond,
                !.sleeps = Append(@, task.retry_delay),
                !.retry_delay = NextDelay(@)]
       ELSE Return(logged, NullResolution)

\* FindPreciseAddress raises.
FindRaise(t, messages) ==
    /\ rt[t].pc = "find"
    /\ \E msg \in messages :
          rt' = [rt EXCEPT ![t] = FindFailed(@, msg, clock)]
    /\ limiters' = Released("openai")
    /\ UNCHANGED <<clock, lastRead, admitLog, clients, google, driverVars, clusterVars, writers, laterVars>>

\* "await asyncio.sleep(retry_delay)" is over: the next attempt.
FindRetry(t) ==
    /\ rt[t].pc = "find_backoff"
    /\ clock >= rt[t].wake
    /\ rt' = [rt EXCEPT ![t] = [@ EXCEPT !.pc = "find_acquire",
                                         !.attempt = @ + 1]]
    /\ UNCHANGED <<clock, lastRead, limiters, admitLog, clients, google, driverVars, clusterVars, writers, laterVars>>

\* "async with <limiter>: geocode_result = await asyncio.to_thread(
\* self.geocoder.geocode, address)"
GeocodeBegin(t) ==
    /\ rt[t].pc = "geo_acquire"
    /\ Acquire(t, GeocodeLimiter, FirstProvider)

\* The dict returned once geocode is over, by tier.
Resolved(task, now) ==
    IF IsSimple(task)
    THEN SimpleResolution(task.inp, task.classification, task.geocode_result, now)
    ELSE ResearchResolution(task.inp, task.address_resolution,
                            task.geocode_result, now)

\* geocode() returned r (a dict or None): the limiter is released and the
\* result is built.
GeocodeReturned(t, r) ==
    /\ rt' = [rt EXCEPT ![t] =
                 LET got == [@ EXCEPT
                         !.geocode_result = r,
                         !.holding = None,
                         !.geo_log = Append(@, IF Found(r) THEN "found"
                                               ELSE "none")]
                 IN Return(got, Resolved(got, clock))]
    /\ limiters' = Released(rt[t].holding)
    /\ UNCHANGED <<clock, lastRead, admitLog, clients, google, driverVars, clusterVars, writers, laterVars>>

\* geocode(): _try_google answers; without a result _try_nominatim is called.
GoogleReturn(t, outcomes) ==
    /\ rt[t].pc = "geo_google"
    /\ \E o \in outcomes :
          IF Found(TryGoogle(o))
          THEN GeocodeReturned(t, TryGoogle(o))
          ELSE /\ rt' = [rt EXCEPT ![t] =
                           Entered(@, @.holding, "geo_nominatim")]
               /\ UNCHANGED <<clock, lastRead, limiters, admitLog, clients,
                              google, driverVars, clusterVars, writers, laterVars>>

\* geocode(): _try_nominatim answers.
NominatimReturn(t, outcomes) ==
    /\ rt[t].pc = "geo_nominatim"
    /\ \E o \in outcomes : GeocodeReturned(t, TryNominatim(o))

\* "if attempt < max_geocode_retries - 1"
MayRetryGeocode(attempt) == attempt < MAX_GEOCODE_RETRIES - 1

\* The except branches around the geocode call: the simple tier goes on
\* without a result; the research tier sleeps and tries again, or leaves
\* the loop without a result.
GeocodeFailed(task, now) ==
    LET logged == [task EXCEPT !.holding = None,
                               !.geo_log = Append(@, "raised")]
    IN IF IsSimple(task)
       THEN Return(logged, Resolved(logged, now))
       ELSE IF MayRetryGeocode(task.attempt)
       THEN [logged EXCEPT
                !.pc = "geo_backoff",
                !.wake = now + task.geocode_delay * TicksPerSecond,
                !.geo_sleeps = Append(@, task.geocode_delay),
                !.geocode_delay = NextDelay(@)]
       ELSE Return(logged, Resolved(logged, now))

\* An exception leaves the awaited geocode call (the providers' own
\* exceptions are caught inside geocode; this one is raised around them,
\* by the thread pool or by the print of a caught error).
GeocodeRaise(t) ==
    /\ rt[t].pc \in {"geo_google", "geo_nominatim"}
    /\ rt' = [rt EXCEPT ![t] = GeocodeFailed(@, clock)]
    /\ limiters' = Released(rt[t].holding)
    /\ UNCHANGED <<clock, lastRead, admitLog, clients, google, driverVars, clusterVars, writers, laterVars>>

\* "await asyncio.sleep(geocode_delay)" is over: the next attempt.
GeocodeRetry(t) ==
    /\ rt[t].pc = "geo_backoff"
    /\ clock >= rt[t].wake
    /\ rt' = [rt EXCEPT ![t] = [@ EXCEPT !.pc = "geo_acquire",
                                         !.attempt = @ + 1]]
    /\ UNCHANGED <<clock, lastRead, limiters, admitLog, clients, google, driverVars, clusterVars, writers, laterVars>>

\* The caller goes on to its next location with a new call.
NextCall(t) ==
    /\ rt[t].pc = "done"
    /\ \E loc \in Locations : rt' = [rt EXCEPT ![t] = NewTask(loc)]
    /\ UNCHANGED <<clock, lastRead, limiters, admitLog, clients, google, driverVars, clusterVars, writers, laterVars>>

\* What the LLM and the providers may answer in a run.
AllAnswers ==
    [classifications |-> Classifications,
     addresses |-> AddressResolutions,
     messages |-> ErrorMessages,
     google |-> GoogleOutcomes,
     nominatim |-> NominatimOutcomes,
     horizon |-> MaxTime]

\* Fewer answers, for the runs with several callers at once.
FewAnswers ==
    [classifications |->
        {c \in Classifications :
            c.estimated_precision = None /\ c.simple_address # ""},
     addresses |-> {a \in AddressResolutions : a.confidence # 50},
     messages |-> {<<"Request", "Timeout">>, <<"Invalid", "API", "key">>},
     google |-> {NoLocation} \cup
                {o \in GoogleLocations : o.raw.location_type = "ROOFTOP"},
     nominatim |-> {NoLocation} \cup
                   {o \in NominatimLocations : o.raw.type = "house"},
     horizon |-> MaxTimeConcurrent]

\* A step of the call of task t in which no awaited call raises.
CallGoesOn(t, world) ==
    \/ ClassifyBegin(t)
    \/ ClassifyReturn(t, world.classifications)
    \/ FindBegin(t)
    \/ FindReturn(t, world.addresses)
    \/ FindRetry(t)
    \/ GeocodeBegin(t)
    \/ RateWake(t)
    \/ GoogleReturn(t, world.google)
    \/ NominatimReturn(t, world.nominatim)
    \/ GeocodeRetry(t)

\* An awaited call of task t raises.
CallRaises(t, world) ==
    \/ ClassifyRaise(t)
    \/ FindRaise(t, world.messages)
    \/ GeocodeRaise(t)

\* A step of the call of task t.
TaskStep(t, world) == CallGoesOn(t, world) \/ CallRaises(t, world)

\* The steps of the calls in progress.
CallNext(world) ==
    \/ Tick(world.horizon)
    \/ \E t \in DOMAIN rt : TaskStep(t, world)

ResolveNext ==
    \/ CallNext(AllAnswers)
    \/ \E t \in DOMAIN rt : NextCall(t)

ResolveInit(tasks, locs) ==
    /\ clock = 0
    /\ lastRead = 0
    /\ limiters = GlobalLimiters
    /\ admitLog = [l \in DOMAIN GlobalLimiters |-> <<>>]
    /\ clients = <<>>
    /\ google \in BOOLEAN
    /\ rt \in [tasks -> {NewTask(loc) : loc \in locs}]
    /\ NoDrivers
    /\ NoSync

\* One caller resolving one location after another.
SpecResolve == ResolveInit({1}, Locations) /\ [][ResolveNext]_vars

\* NumTasks callers at once, one call each (resolve_batch, the CLI's driver).
SpecConcurrent ==
    ResolveInit(Tasks, {loc \in Locations : loc.place_type = "city"})
        /\ [][CallNext(FewAnswers)]_vars

\* Callers admitted by acquire and not yet released.
InFlight == {c \in Clients : clients[c].pc = "admitted"}

\* C1: the number of callers admitted by acquire and not yet released never
\* exceeds max_concurrent.
C1_ConcurrencyBound ==
    Cardinality(InFlight) <= limiters["rl"].max_concurrent

\* C1 witness: max_concurrent callers are in flight and another has been
\* kept waiting (it is still idle while no slot is free).
C1_Witness ==
    /\ limiters["rl"].max_concurrent = 2
    /\ Cardinality(InFlight) = 2
    /\ limiters["rl"].value = 0
    /\ \E c \in Clients : clients[c].pc = "idle"

\* C2: with requests_per_second = R, at most R admissions have timestamps
\* inside any one-second window: of R + 1 successive admissions the last is
\* at least one second after the first.
C2_RateWindow ==
    LET lim == limiters["rl"]
        log == admitLog["rl"]
    IN (HasRate(lim) /\ Len(log) = lim.requests_per_second + 1)
          => log[Len(log)] - log[1] >= Window

\* C4: with max_concurrent = 1 and requests_per_second = 1, at most one
\* caller is admitted at a time and two successive admissions are at least
\* one second apart.
C4_StrictProfile ==
    LET lim == limiters["rl"]
        log == admitLog["rl"]
    IN (lim.max_concurrent = NOMINATIM_MAX_CONCURRENT
          /\ lim.requests_per_second = NOMINATIM_RPS)
       => /\ Cardinality(InFlight) <= 1
          /\ Len(log) = 2 => log[2] - log[1] >= Window

\* C4 witness: under the strict profile two callers were admitted exactly
\* one second apart, and a third, having taken the only slot, sleeps until
\* the window of the second is over.
C4_Witness ==
    LET lim == limiters["rl"]
        log == admitLog["rl"]
    IN /\ lim.max_concurrent = 1 /\ lim.requests_per_second = 1
       /\ Len(log) = 2
       /\ log[2] - log[1] = Window
       /\ \E c \in Clients :
             clients[c].pc = "sleeping" /\ clients[c].wake = log[2] + Window

---------------------------------------------------------------------------
(* Claims about resolve_async *)

Done(t) == rt[t].pc = "done"
Last(seq) == seq[Len(seq)]
Timeout == <<"Request", "Timeout">>
InvalidKey == <<"Invalid", "API", "key">>
InNominatim == {t \in DOMAIN rt : rt[t].pc = "geo_nominatim"}

\* C3: every call that reaches the free provider (Nominatim) is made while
\* the calling task holds NOMINATIM_LIMITER, so at most one such call is in
\* flight at a time, also when it is the fallback after Google.
C3_NominatimUnderItsLimiter ==
    /\ \A t \in InNominatim : rt[t].holding = "nominatim"
    /\ Cardinality(InNominatim) <= 1

\* C5: a call classified skip returns place_name, the input coordinates,
\* precision country or region by place_type, confidence 0.2 and a
\* non-empty concerns list, and makes no geocoder and no address-lookup call.
C5_SkipTier ==
    \A t \in DOMAIN rt :
        (Done(t) /\ rt[t].classification.category = "skip") =>
            LET r == rt[t].result
                inp == rt[t].inp
            IN /\ ~r.is_null
               /\ r.resolved_address = inp.place_name
               /\ r.resolved_lat = inp.lat
               /\ r.resolved_lon = inp.lon
               /\ r.resolved_precision =
                     (IF inp.place_type = "country" THEN "country" ELSE "region")
               /\ r.resolution_confidence = 20
               /\ JsonGet(r.resolution_source, "concerns") # "[]"
               /\ rt[t].calls.geocode = 0
               /\ rt[t].calls.google = 0
               /\ rt[t].calls.nominatim = 0
               /\ rt[t].calls.find = 0

\* C5 witness: a skip-tier call has returned for a place whose type is not
\* country, with precision region.
C5_Witness ==
    \E t \in DOMAIN rt :
        /\ Done(t)
        /\ rt[t].classification.category = "skip"
        /\ rt[t].inp.place_type # "country"
        /\ rt[t].result.resolved_precision = "region"

\* C6: when the classification call raises, the call goes through the
\* research tier: the address lookup is invoked and the result is neither
\* the skip tier's nor the simple tier's.
C6_ClassifyFailureIsResearch ==
    \A t \in DOMAIN rt :
        rt[t].classify_raised =>
            /\ rt[t].pc \notin {"start", "classify"}
            /\ rt[t].pc # "find_acquire" => rt[t].calls.find >= 1
            /\ (Done(t) /\ ~rt[t].result.is_null) =>
                  /\ "tier" \notin JsonKeys(rt[t].result.resolution_source)
                  /\ rt[t].result.resolution_confidence
                        = rt[t].address_resolution.confidence
                  /\ rt[t].result.resolved_address
                        = rt[t].address_resolution.address

\* C6 witness: a call whose classification raised has returned a Resolution.
C6_Witness ==
    \E t \in DOMAIN rt :
        /\ Done(t)
        /\ rt[t].classify_raised
        /\ ~rt[t].result.is_null
        /\ rt[t].calls.find = 1

\* A call that went through the simple tier with a canonical address.
SimpleWithAddress(t) ==
    /\ Done(t)
    /\ rt[t].classification.category = "simple"
    /\ rt[t].classification.simple_address \notin {None, ""}

\* C7 as stated: a call classified simple with a canonical address geocodes
\* it through the cascade and returns confidence 0.85 and the precision of
\* the geocoder result, with no address-lookup call.
C7_Original ==
    \A t \in DOMAIN rt :
        SimpleWithAddress(t) =>
            /\ ~rt[t].result.is_null
            /\ rt[t].calls.geocode = 1
            /\ rt[t].calls.find = 0
            /\ rt[t].result.resolution_confidence = 85
            /\ rt[t].geocode_result.source # None
            /\ rt[t].result.resolved_precision = rt[t].geocode_result.precision

\* C7 as amended: the same, with the precision of the geocoder result when
\* the cascade returned one, and otherwise (no provider had a result, or
\* the geocode call raised) the classification's estimated precision, or
\* city when it gave none.
C7_SimpleTier ==
    \A t \in DOMAIN rt :
        SimpleWithAddress(t) =>
            LET r == rt[t].result
                g == rt[t].geocode_result
                est == rt[t].classification.estimated_precision
            IN /\ ~r.is_null
               /\ rt[t].calls.geocode = 1
               /\ rt[t].calls.find = 0
               /\ r.resolution_confidence = 85
               /\ g.source # None => r.resolved_precision = g.precision
               /\ g.source = None =>
                     r.resolved_precision =
                        (IF est \in {None, ""} THEN "city" ELSE est)

\* C7 witness: a simple-tier call whose geocode call found nothing has
\* returned with the classification's estimated precision.
C7_Witness ==
    \E t \in DOMAIN rt :
        /\ SimpleWithAddress(t)
        /\ rt[t].geocode_result.source = None
        /\ rt[t].classification.estimated_precision = "region"
        /\ rt[t].result.resolved_precision = "region"
        /\ rt[t].geo_log = <<"none">>

\* C8: the address lookup is attempted at most 3 times; the task sleeps 1 s
\* after a retryable failure of attempt 1 and 2 s after one of attempt 2;
\* two timeouts followed by a success give a Resolution after the delays
\* 1 s, 2 s; three failures give null.
C8_LookupRetries ==
    \A t \in DOMAIN rt :
        LET log == rt[t].find_log IN
        /\ rt[t].calls.find <= 3
        /\ Len(log) <= 3
        /\ rt[t].sleeps \in {<<>>, <<1>>, <<1, 2>>}
        /\ rt[t].pc = "find_backoff" =>
              /\ Len(rt[t].sleeps) = Len(log)
              /\ rt[t].wake - clock <= Last(rt[t].sleeps) * TicksPerSecond
        /\ (Done(t) /\ log = <<Timeout, Timeout, <<"ok">> >>) =>
              /\ ~rt[t].result.is_null
              /\ rt[t].sleeps = <<1, 2>>
        /\ (Done(t) /\ Len(log) = 3 /\ Last(log) # <<"ok">>) =>
              rt[t].result.is_null

\* C8 witness: a call has returned a Resolution after two timeouts and a
\* third, successful attempt.
C8_Witness ==
    \E t \in DOMAIN rt :
        /\ Done(t)
        /\ rt[t].find_log = <<Timeout, Timeout, <<"ok">> >>
        /\ rt[t].sleeps = <<1, 2>>
        /\ ~rt[t].result.is_null

\* C9: a non-retryable failure of the address lookup returns null at once:
\* no sleep follows it, no further attempt, no geocode call.
C9_FatalLookup ==
    \A t \in DOMAIN rt :
        LET log == rt[t].find_log IN
        (\E i \in DOMAIN log : log[i] = InvalidKey) =>
            /\ Done(t)
            /\ rt[t].result.is_null
            /\ Last(log) = InvalidKey
            /\ rt[t].calls.find = Len(log)
            /\ Len(rt[t].sleeps) = Len(log) - 1
            /\ rt[t].calls.geocode = 0

\* C9 witness: a second attempt, made after a timeout, failed with a
\* non-retryable error and the call returned null.
C9_Witness ==
    \E t \in DOMAIN rt :
        /\ Done(t)
        /\ rt[t].find_log = <<Timeout, InvalidKey>>
        /\ rt[t].result.is_null

\* A research-tier call that got a candidate address has returned.
ResearchWithAddress(t) ==
    /\ Done(t)
    /\ rt[t].find_log # <<>>
    /\ Last(rt[t].find_log) = <<"ok">>
    /\ rt[t].address_resolution.address \notin {None, ""}

\* C10: in the research tier with a candidate address, when geocoding
\* yields no result the Resolution is non-null with the LLM's lat, lon and
\* precision and geocoder null; when it succeeds the three fields are the
\* geocoder's and geocoder names the provider.
C10_GeocodeFallback ==
    \A t \in DOMAIN rt :
        ResearchWithAddress(t) =>
            LET r == rt[t].result
                g == rt[t].geocode_result
                a == rt[t].address_resolution
                named == JsonGet(r.resolution_source, "geocoder")
            IN /\ ~r.is_null
               /\ Last(rt[t].geo_log) \in {"none", "raised"} =>
                     /\ r.resolved_lat = a.lat
                     /\ r.resolved_lon = a.lon
                     /\ r.resolved_precision = a.precision
                     /\ named = "null"
               /\ Last(rt[t].geo_log) = "found" =>
                     /\ r.resolved_lat = g.lat
                     /\ r.resolved_lon = g.lon
                     /\ r.resolved_precision = g.precision
                     /\ g.source \in {"google", "nominatim"}
                     /\ named = "\"" \o g.source \o "\""

\* C10 witness: with Google configured, both providers had no result for
\* the candidate address and the Resolution carries the LLM's values.
C10_Witness ==
    \E t \in DOMAIN rt :
        /\ ResearchWithAddress(t)
        /\ google
        /\ rt[t].calls.google = 1
        /\ rt[t].calls.nominatim = 1
        /\ rt[t].geo_log = <<"none">>
        /\ rt[t].result.resolved_lat = "37.36"
        /\ rt[t].result.resolved_precision = "address"

---------------------------------------------------------------------------
(* GeocoderCascade.geocode and reverse_geocode, called on their own *)

\* More provider answers, of every precision the providers report.
MoreNominatimLocations ==
    { [kind |-> "location",
       address |-> "Crist Drive, Los Altos, California, United States",
       latitude |-> "37.3690", longitude |-> "-122.1090",
       raw |-> [type |-> "residential",
                address |-> {"road", "city", "state", "country"}]],
      [kind |-> "location",
       address |-> "California, United States",
       latitude |-> "36.7014", longitude |-> "-118.7560",
       raw |-> [type |-> "administrative", address |-> {"state", "country"}]],
      [kind |-> "location",
       address |-> "United States",
       latitude |-> "39.7837", longitude |-> "-100.4459",
       raw |-> [type |-> "administrative", address |-> {"country"}]] }

MoreGoogleLocations ==
    { [kind |-> "location",
       address |-> "2060-2070 Crist Dr, Los Altos, CA 94024, USA",
       latitude |-> "37.3401", longitude |-> "-122.0701",
       raw |-> [location_type |-> "RANGE_INTERPOLATED", types |-> {"route"}]],
      [kind |-> "location",
       address |-> "Cupertino, CA, USA",
       latitude |-> "37.3230", longitude |-> "-122.0322",
       raw |-> [location_type |-> "APPROXIMATE",
                types |-> {"locality", "political"}]] }

\* What the two providers may answer to one call of the cascade.
CascadeAnswers ==
    [google |-> GoogleOutcomes \cup MoreGoogleLocations,
     nominatim |-> NominatimOutcomes \cup MoreNominatimLocations]

\* The operations of the cascade and the arguments of a call: an address
\* for geocode, a latitude and a longitude for reverse_geocode.
CascadeOps == {"geocode", "reverse_geocode"}
CascadeArgs ==
    [geocode |-> {<<"2066 Crist Dr, Los Altos, CA">>, <<"Cupertino, CA">>},
     reverse_geocode |-> {<<"37.3688", "-122.1088">>, <<"0.0", "0.0">>}]

\* No call of the cascade is in progress.
NoCall ==
    [pc |-> "idle", op |-> None, arg |-> None, asked |-> <<>>,
     result |-> NoGeocode]

\* The providers in the order geocode and reverse_geocode ask them:
\* "if self.google:" first, then Nominatim.
ProviderOrder_FreeFirst(configured) ==
    IF configured THEN <<"nominatim", "google">> ELSE <<"nominatim">>
ProviderOrder(configured) ==
    IF configured THEN <<"google", "nominatim">> ELSE <<"nominatim">>

\* What a provider's answer becomes: _try_google / _try_nominatim in
\* geocode, the same try/except blocks in line in reverse_geocode.
TryProvider(provider, outcome) ==
    IF provider = "google" THEN TryGoogle(outcome) ELSE TryNominatim(outcome)

\* "if result: return result", else the next provider, else "return None".
AfterProvider_GiveUp(call, result) ==
    [call EXCEPT !.pc = "done", !.result = result]
AfterProvider(call, result) ==
    LET order == ProviderOrder(google)
        next == Len(call.asked) + 1
    IN IF Found(result) \/ next > Len(order)
       THEN [call EXCEPT !.pc = "done", !.result = result]
       ELSE [call EXCEPT !.pc = order[next]]

\* geocode(address) or reverse_geocode(lat, lon) is called.
CascadeBegin(op) ==
    /\ geo.pc = "idle"
    /\ \E arg \in CascadeArgs[op] :
          geo' = [NoCall EXCEPT !.pc = ProviderOrder(google)[1], !.op = op,
                                !.arg = arg]
    /\ UNCHANGED <<clock, lastRead, limiters, admitLog, clients, google, rt,
                   skip, store, run, jobs, persisted, clusterVars, writers, laterVars>>

\* The provider that is being asked answers: a Location, nothing, or an
\* exception, which the except clause around the provider's call catches.
ProviderAnswers(provider, outcomes) ==
    /\ geo.pc = provider
    /\ \E o \in outcomes :
          LET asked == [geo EXCEPT !.asked = Append(@, <<provider, o>>)]
          IN geo' = AfterProvider(asked, TryProvider(provider, o))
    /\ UNCHANGED <<clock, lastRead, limiters, admitLog, clients, google, rt,
                   skip, store, run, jobs, persisted, clusterVars, writers, laterVars>>

\* The call returns to its caller.
CascadeReturn ==
    /\ geo.pc = "done"
    /\ geo' = NoCall
    /\ UNCHANGED <<clock, lastRead, limiters, admitLog, clients, google, rt,
                   skip, store, run, jobs, persisted, clusterVars, writers, laterVars>>

CascadeInit ==
    /\ clock = 0
    /\ lastRead = 0
    /\ limiters = <<>>
    /\ admitLog = <<>>
    /\ clients = <<>>
    /\ google \in BOOLEAN
    /\ rt = <<>>
    /\ geo = NoCall
    /\ skip = <<>>
    /\ store = <<>>
    /\ run = <<>>
    /\ jobs = <<>>
    /\ persisted = {}
    /\ NoClustering
    /\ NoWriters
    /\ NoSync
    /\ NoHarvest

CascadeNext ==
    \/ \E op \in CascadeOps : CascadeBegin(op)
    \/ ProviderAnswers("google", CascadeAnswers.google)
    \/ ProviderAnswers("nominatim", CascadeAnswers.nominatim)
    \/ CascadeReturn

SpecCascade == CascadeInit /\ [][CascadeNext]_vars

---------------------------------------------------------------------------
(* Claims about the cascade *)

\* The providers a call has asked, in order, and whether none had a result.
AskedProviders == [i \in DOMAIN geo.asked |-> geo.asked[i][1]]
NoProviderAnswered ==
    \A i \in DOMAIN geo.asked : geo.asked[i][2].kind # "location"
ConfiguredProviders ==
    IF google THEN <<"google", "nominatim">> ELSE <<"nominatim">>

---------------------------------------------------------------------------
(* LocationResolver.should_skip_resolution *)

\* Confidences are in hundredths; NoConfidence stands for None (NULL).
NoConfidence == -1
HIGH_CONFIDENCE == 70

\* Truth value of an optional number: None and 0 are false.
TruthyNumber(x) == x # NoConfidence /\ x # 0

\* should_skip_resolution; story_id and loc_idx are only printed.
ShouldSkipResolution_AnyMode(story_id, loc_idx, resolved_address, resolution_confidence, incremental) ==
    /\ Truthy(resolved_address)
    /\ TruthyNumber(resolution_confidence)
    /\ resolution_confidence >= HIGH_CONFIDENCE
ShouldSkipResolution(story_id, loc_idx, resolved_address, resolution_confidence, incremental) ==
    IF ~Truthy(resolved_address) THEN FALSE
    ELSE IF /\ incremental
            /\ TruthyNumber(resolution_confidence)
            /\ resolution_confidence >= HIGH_CONFIDENCE
    THEN TRUE
    ELSE FALSE

\* The arguments of the calls.
SkipArguments ==
    [story_id : {"book1_s1", "book1_s2"},
     loc_idx : {0, 1},
     resolved_address : {None, "", "2066 Crist Dr, Los Altos, CA 94024"},
     resolution_confidence : {NoConfidence, 0, 20, 69, 70, 71, 100},
     incremental : BOOLEAN]

NoSkipCall == [pc |-> "idle"]

\* should_skip_resolution is called and answers.
ShouldSkipCall ==
    /\ skip = NoSkipCall
    /\ \E a \in SkipArguments :
          skip' = [pc |-> "returned", args |-> a,
                   answer |-> ShouldSkipResolution(
                       a.story_id, a.loc_idx, a.resolved_address,
                       a.resolution_confidence, a.incremental)]
    /\ UNCHANGED <<clock, lastRead, limiters, admitLog, clients, google, rt,
                   geo, store, run, jobs, persisted, clusterVars, writers, laterVars>>

\* The caller has the answer; the next call may follow.
ShouldSkipDone ==
    /\ skip # NoSkipCall
    /\ skip' = NoSkipCall
    /\ UNCHANGED <<clock, lastRead, limiters, admitLog, clients, google, rt,
                   geo, store, run, jobs, persisted, clusterVars, writers, laterVars>>

SkipInit ==
    /\ clock = 0
    /\ lastRead = 0
    /\ limiters = <<>>
    /\ admitLog = <<>>
    /\ clients = <<>>
    /\ google = FALSE
    /\ rt = <<>>
    /\ geo = <<>>
    /\ skip = NoSkipCall
    /\ store = <<>>
    /\ run = <<>>
    /\ jobs = <<>>
    /\ persisted = {}
    /\ NoClustering
    /\ NoWriters
    /\ NoSync
    /\ NoHarvest

SkipNext == ShouldSkipCall \/ ShouldSkipDone

SpecSkip == SkipInit /\ [][SkipNext]_vars

\* C13: should_skip_resolution answers true exactly when incremental is
\* set, resolved_address is neither None nor empty and the confidence is at
\* least 0.7; so it answers false for a null resolved_address in either
\* mode and for every input in batch mode.
C13_ShouldSkip ==
    skip # NoSkipCall =>
        LET a == skip.args IN
        /\ skip.answer <=>
              /\ a.incremental
              /\ a.resolved_address \notin {None, ""}
              /\ a.resolution_confidence # NoConfidence
              /\ a.resolution_confidence >= 70
        /\ a.resolved_address = None => ~skip.answer
        /\ ~a.incremental => ~skip.answer

\* C13 witness: an incremental call for a location resolved with
\* confidence exactly 0.7 answered true.
C13_Witness ==
    /\ skip # NoSkipCall
    /\ skip.args.incremental
    /\ skip.args.resolved_address # None
    /\ skip.args.resolution_confidence = 70
    /\ skip.answer

---------------------------------------------------------------------------
(* The story_locations table and persist_resolution *)

\* The locations of the table in the order of the candidate query
\* ("ORDER BY sl.story_id, sl.loc_idx"), with their extraction columns.
StoryLocations ==
    << [story_id |-> "book1_s1", loc_idx |-> 0, place_name |-> "United States",
        place_type |-> "country", lat |-> None, lon |-> None,
        geo_precision |-> "country", note |-> None],
       [story_id |-> "book1_s1", loc_idx |-> 1,
        place_name |-> "Cupertino, California",
        place_type |-> "city", lat |-> "37.3", lon |-> "-122.0",
        geo_precision |-> "city", note |-> "Apple's home"],
       [story_id |-> "book1_s2", loc_idx |-> 0, place_name |-> "the garage",
        place_type |-> None, lat |-> None, lon |-> None,
        geo_precision |-> None, note |-> "where it began"] >>

\* The rows of a run.
Keys == 1..(IF NumLocations < Len(StoryLocations)
            THEN NumLocations ELSE Len(StoryLocations))

\* A row as extraction leaves it: the resolution columns are NULL (NoTime
\* is the NULL of resolved_at).
NoTime == -1
UnresolvedRow(loc) ==
    [story_id |-> loc.story_id,
     loc_idx |-> loc.loc_idx,
     place_name |-> loc.place_name,
     place_type |-> loc.place_type,
     lat |-> loc.lat,
     lon |-> loc.lon,
     geo_precision |-> loc.geo_precision,
     note |-> loc.note,
     resolved_address |-> None,
     resolved_lat |-> None,
     resolved_lon |-> None,
     resolved_precision |-> None,
     resolution_confidence |-> NoConfidence,
     resolution_source |-> <<>>,
     resolved_at |-> NoTime,
     resolution_hash |-> <<>>]

\* The arguments resolve_async is given for a row.
LocationOf(row) ==
    [story_id |-> row.story_id, loc_idx |-> row.loc_idx,
     place_name |-> row.place_name, place_type |-> row.place_type,
     lat |-> row.lat, lon |-> row.lon]

\* str() in an f-string: None is written "None".
Str(v) == IF v = None THEN "None" ELSE v

\* "f'{story_id}:{loc_idx}:{resolved_address}'"
HashInput_NoAddress(story_id, loc_idx, resolved_address) ==
    Str(story_id) \o ":" \o ToString(loc_idx)
HashInput(story_id, loc_idx, resolved_address) ==
    Str(story_id) \o ":" \o ToString(loc_idx) \o ":" \o Str(resolved_address)

\* "hashlib.sha256(hash_input.encode()).hexdigest()[:16]": the digest is
\* kept as the text it was computed from.
Sha256Hex16(text) == <<"sha256", 16, text>>

\* resolution_hash of persist_resolution.
ResolutionHash(resolution) ==
    Sha256Hex16(HashInput(resolution.story_id, resolution.loc_idx,
                          resolution.resolved_address))

\* The UPDATE of persist_resolution, on one row: the row with the key of
\* the resolution gets the eight resolution columns.
UpdatedRow_KeepHash(row, resolution) ==
    IF row.story_id = resolution.story_id /\ row.loc_idx = resolution.loc_idx
       /\ row.resolved_at # NoTime
    THEN [row EXCEPT
            !.resolved_address = resolution.resolved_address,
            !.resolved_lat = resolution.resolved_lat,
            !.resolved_lon = resolution.resolved_lon,
            !.resolved_precision = resolution.resolved_precision,
            !.resolution_confidence = resolution.resolution_confidence,
            !.resolution_source = resolution.resolution_source,
            !.resolved_at = resolution.resolved_at]
    ELSE IF row.story_id = resolution.story_id
            /\ row.loc_idx = resolution.loc_idx
    THEN [row EXCEPT
            !.resolved_address = resolution.resolved_address,
            !.resolved_lat = resolution.resolved_lat,
            !.resolved_lon = resolution.resolved_lon,
            !.resolved_precision = resolution.resolved_precision,
            !.resolution_confidence = resolution.resolution_confidence,
            !.resolution_source = resolution.resolution_source,
            !.resolved_at = resolution.resolved_at,
            !.resolution_hash = <<"sha256", 16,
                Str(resolution.story_id) \o ":"
                    \o ToString(resolution.loc_idx) \o ":"
                    \o Str(resolution.resolved_address)>>]
    ELSE row
UpdatedRow(row, resolution) ==
    IF row.story_id = resolution.story_id /\ row.loc_idx = resolution.loc_idx
    THEN [row EXCEPT
            !.resolved_address = resolution.resolved_address,
            !.resolved_lat = resolution.resolved_lat,
            !.resolved_lon = resolution.resolved_lon,
            !.resolved_precision = resolution.resolved_precision,
            !.resolution_confidence = resolution.resolution_confidence,
            !.resolution_source = resolution.resolution_source,
            !.resolved_at = resolution.resolved_at,
            !.resolution_hash = ResolutionHash(resolution)]
    ELSE row

\* persist_resolution: the table afterwards.
PersistResolution_EveryRow(table, resolution) ==
    [k \in DOMAIN table |->
        UpdatedRow(table[k], [resolution EXCEPT
                                 !.story_id = table[k].story_id,
                                 !.loc_idx = table[k].loc_idx])]
PersistResolution(table, resolution) ==
    [k \in DOMAIN table |-> UpdatedRow(table[k], resolution)]

\* History: what a persist_resolution call that returned has written.
PersistRecord(resolution) ==
    [story_id |-> resolution.story_id,
     loc_idx |-> resolution.loc_idx,
     resolved_address |-> resolution.resolved_address,
     resolution_confidence |-> resolution.resolution_confidence,
     resolution_hash |-> ResolutionHash(resolution)]

---------------------------------------------------------------------------
(* The drivers: the resolve command of the CLI and resolve_batch *)

\* The dicts resolve_async may return to a driver for a location: one of
\* the skip tier, one of the simple tier (geocoding found nothing) and
\* three of the research tier (an address and a geocoder result, with a
\* confidence of 0.9 or of 0.7; no address).
DriverResolutions(loc) ==
    { SkipResolution(loc, c, clock) :
        c \in {x \in Classifications : x.category = "skip"} }
    \cup
    { SimpleResolution(loc, c, NoGeocode, clock) :
        c \in {x \in Classifications :
                 /\ x.category = "simple"
                 /\ Truthy(x.simple_address)
                 /\ x.estimated_precision = None} }
    \cup
    { ResearchResolution(loc, a,
          IF Truthy(a.address)
          THEN TryGoogle(CHOOSE o \in GoogleLocations :
                            o.raw.location_type = "ROOFTOP")
          ELSE NoGeocode,
          clock) :
        a \in {x \in AddressResolutions : x.confidence # 50}
              \cup {[x EXCEPT !.confidence = HIGH_CONFIDENCE] :
                       x \in {y \in AddressResolutions : y.confidence = 90}} }

\* The options of the resolve command that are modelled (--filter,
\* --book-id, --limit and --dry-run are not given).
ConfidenceThresholds == {70, 90}
Concurrencies == {1, 2}

\* No run has been started.
NoRun ==
    [kind |-> None, phase |-> "idle", batch |-> TRUE,
     confidence_threshold |-> HIGH_CONFIDENCE, concurrency |-> 1,
     semaphore |-> 0, locations |-> <<>>, offered |-> <<>>,
     success_count |-> 0, fail_count |-> 0, results |-> <<>>]

\* The WHERE clause of the candidate query.
Selected_Unresolved(row, batch, confidence_threshold) ==
    row.place_name # None /\ row.resolved_address = None
Selected(row, batch, confidence_threshold) ==
    /\ row.place_name # None
    /\ IF batch
       THEN row.resolved_address = None
       ELSE \/ row.resolved_address = None
            \/ row.resolution_confidence = NoConfidence
            \/ row.resolution_confidence < confidence_threshold

\* "Filter locations that need resolution": a selected row is left out in
\* incremental mode when it is resolved with a confidence of at least the
\* threshold.
Kept(row, batch, confidence_threshold) ==
    ~ /\ ~batch
      /\ Truthy(row.resolved_address)
      /\ TruthyNumber(row.resolution_confidence)
      /\ row.resolution_confidence >= confidence_threshold

\* The keys of the table, in the order of the query.
AllKeys == [k \in Keys |-> k]

\* "locations = cursor.fetchall()"
Candidates(table, batch, confidence_threshold) ==
    LET Test(k) == Selected(table[k], batch, confidence_threshold)
    IN SelectSeq(AllKeys, Test)

\* "filtered_locations"
Filtered(table, locations, batch, confidence_threshold) ==
    LET Test(k) == Kept(table[k], batch, confidence_threshold)
    IN SelectSeq(locations, Test)

\* One task per offered location; loc is the dict the task was given,
\* resolution the value its resolve_async call ended with (null also when
\* the task raised).
NewJob(table, k) ==
    [key |-> k, loc |-> LocationOf(table[k]), pc |-> "waiting",
     resolution |-> NullResolution, raised |-> FALSE, saved |-> FALSE]

NewJobs(table, offered) ==
    [i \in DOMAIN offered |-> NewJob(table, offered[i])]

\* What the drivers leave alone.
notDriven == <<clock, lastRead, limiters, admitLog, clients, google, rt, geo, skip,
               clusterVars, writers, laterVars>>

\* A driver is started on the table once.
MayStart == run.phase = "idle"

\* The resolve command up to asyncio.run: the candidate query, the filter
\* and one task per filtered location ("sys.exit(0)" when there is none).
CliStart ==
    /\ MayStart
    /\ \E batch \in BOOLEAN, confidence_threshold \in ConfidenceThresholds,
          concurrency \in Concurrencies :
          LET locations == Candidates(store, batch, confidence_threshold)
              filtered == Filtered(store, locations, batch,
                                   confidence_threshold)
          IN /\ run' = [NoRun EXCEPT
                    !.kind = "cli",
                    !.phase = IF filtered = <<>> THEN "finished"
                              ELSE "running",
                    !.batch = batch,
                    !.confidence_threshold = confidence_threshold,
                    !.concurrency = concurrency,
                    !.semaphore = concurrency,
                    !.locations = locations,
                    !.offered = filtered]
             /\ jobs' = NewJobs(store, filtered)
    /\ UNCHANGED <<store, persisted, notDriven>>

\* resolve_batch(locations, concurrency) is called with the rows of the
\* table and creates one task per location.
BatchStart ==
    /\ MayStart
    /\ \E concurrency \in Concurrencies :
          run' = [NoRun EXCEPT
                    !.kind = "resolve_batch",
                    !.phase = "running",
                    !.concurrency = concurrency,
                    !.semaphore = concurrency,
                    !.locations = AllKeys,
                    !.offered = AllKeys]
    /\ jobs' = NewJobs(store, AllKeys)
    /\ UNCHANGED <<store, persisted, notDriven>>

\* asyncio.Semaphore(concurrency): entered only while its value is positive.
SlotFree_Always(r) == TRUE
SlotFree(r) == r.semaphore > 0

\* "async with semaphore:" is entered and resolve_async is awaited.
JobEnter(i) ==
    /\ run.phase = "running"
    /\ jobs[i].pc = "waiting"
    /\ SlotFree(run)
    /\ run' = [run EXCEPT !.semaphore = @ - 1]
    /\ jobs' = [jobs EXCEPT ![i].pc = "resolving"]
    /\ UNCHANGED <<store, persisted, notDriven>>

\* success_count and fail_count of resolve_and_save, by how the task ended:
\* "saved", "null" (resolve_async returned None) or "raised".
Counted_OnlyNull(r, ending) ==
    IF ending = "saved" THEN [r EXCEPT !.success_count = @ + 1]
    ELSE IF ending = "null" THEN [r EXCEPT !.fail_count = @ + 1]
    ELSE r
Counted(r, ending) ==
    IF ending = "saved" THEN [r EXCEPT !.success_count = @ + 1]
    ELSE [r EXCEPT !.fail_count = @ + 1]

\* The semaphore is released when the body of "async with" is left.
Left(r) == [r EXCEPT !.semaphore = @ + 1]

\* resolve_and_save: resolve_async returns; a dict is persisted at once
\* (persist_resolution may raise an sqlite3 error, which leaves the row as
\* it was) and the task is counted.
CliJobReturns(i) ==
    /\ run.kind = "cli"
    /\ jobs[i].pc = "resolving"
    /\ \E resolution \in DriverResolutions(jobs[i].loc) \cup {NullResolution},
          persists \in BOOLEAN :
          IF resolution.is_null
          THEN /\ persists
               /\ run' = Left(Counted(run, "null"))
               /\ jobs' = [jobs EXCEPT ![i].pc = "done"]
               /\ UNCHANGED <<store, persisted>>
          ELSE IF persists
          THEN /\ store' = PersistResolution(store, resolution)
               /\ persisted' = persisted \cup {PersistRecord(resolution)}
               /\ run' = Left(Counted(run, "saved"))
               /\ jobs' = [jobs EXCEPT ![i].pc = "done",
                                       ![i].resolution = resolution,
                                       ![i].saved = TRUE]
          ELSE /\ run' = Left(Counted(run, "raised"))
               /\ jobs' = [jobs EXCEPT ![i].pc = "done", ![i].raised = TRUE]
               /\ UNCHANGED <<store, persisted>>
    /\ UNCHANGED notDriven

\* resolve_and_save: resolve_async raises, "except Exception" counts it.
CliJobRaises(i) ==
    /\ run.kind = "cli"
    /\ jobs[i].pc = "resolving"
    /\ run' = Left(Counted(run, "raised"))
    /\ jobs' = [jobs EXCEPT ![i].pc = "done", ![i].raised = TRUE]
    /\ UNCHANGED <<store, persisted, notDriven>>

\* asyncio.gather returns: "return success_count, fail_count".
CliFinish ==
    /\ run.kind = "cli"
    /\ run.phase = "running"
    /\ \A i \in DOMAIN jobs : jobs[i].pc = "done"
    /\ run' = [run EXCEPT !.phase = "finished"]
    /\ UNCHANGED <<store, jobs, persisted, notDriven>>

\* resolve_with_semaphore: "return await self.resolve_async(...)".
BatchJobReturns(i) ==
    /\ run.kind = "resolve_batch"
    /\ jobs[i].pc = "resolving"
    /\ \E resolution \in DriverResolutions(jobs[i].loc) \cup {NullResolution} :
          jobs' = [jobs EXCEPT ![i].pc = "done", ![i].resolution = resolution]
    /\ run' = Left(run)
    /\ UNCHANGED <<store, persisted, notDriven>>

\* resolve_with_semaphore: "except Exception: return None".
BatchJobRaises(i) ==
    /\ run.kind = "resolve_batch"
    /\ jobs[i].pc = "resolving"
    /\ jobs' = [jobs EXCEPT ![i].pc = "done", ![i].raised = TRUE,
                            ![i].resolution = NullResolution]
    /\ run' = Left(run)
    /\ UNCHANGED <<store, persisted, notDriven>>

\* "results = await asyncio.gather(...)" and the list that is returned:
\* the tasks' values in the order of the locations.
Gather_OnlyResolved(js) ==
    LET Resolved_(r) == ~r.is_null
    IN SelectSeq([i \in DOMAIN js |-> js[i].resolution], Resolved_)
Gather(js) == [i \in DOMAIN js |-> js[i].resolution]

BatchGather ==
    /\ run.kind = "resolve_batch"
    /\ run.phase = "running"
    /\ \A i \in DOMAIN jobs : jobs[i].pc = "done"
    /\ run' = [run EXCEPT !.phase = "finished", !.results = Gather(jobs)]
    /\ UNCHANGED <<store, jobs, persisted, notDriven>>

\* The rows a table holds when a driver starts: as extraction left them,
\* or as an earlier run's persist_resolution call updated them with an
\* address it had found.
RowsOf(loc) ==
    {UnresolvedRow(loc)} \cup
    {UpdatedRow(UnresolvedRow(loc), r) :
        r \in {d \in DriverResolutions(loc) : d.resolved_address # None}}

EarlierRows == UNION {RowsOf(StoryLocations[k]) : k \in Keys}

\* A row that a persist_resolution call has updated, and that call.
IsResolved(row) == row.resolved_at # NoTime
EarlierCall(row) ==
    [story_id |-> row.story_id,
     loc_idx |-> row.loc_idx,
     resolved_address |-> row.resolved_address,
     resolution_confidence |-> row.resolution_confidence,
     resolution_hash |-> row.resolution_hash]

DriverInit ==
    /\ clock = 0
    /\ lastRead = 0
    /\ limiters = <<>>
    /\ admitLog = <<>>
    /\ clients = <<>>
    /\ google = FALSE
    /\ rt = <<>>
    /\ geo = <<>>
    /\ skip = <<>>
    /\ store \in [Keys -> EarlierRows]
    /\ \A k \in Keys : store[k] \in RowsOf(StoryLocations[k])
    /\ run = NoRun
    /\ jobs = <<>>
    /\ persisted = {EarlierCall(store[k]) : k \in {j \in Keys : IsResolved(store[j])}}
    /\ NoClustering
    /\ NoWriters
    /\ NoSync
    /\ NoHarvest

DriverNext ==
    \/ CliStart
    \/ BatchStart
    \/ \E i \in DOMAIN jobs : JobEnter(i)
    \/ \E i \in DOMAIN jobs : CliJobReturns(i)
    \/ \E i \in DOMAIN jobs : CliJobRaises(i)
    \/ CliFinish
    \/ \E i \in DOMAIN jobs : BatchJobReturns(i)
    \/ \E i \in DOMAIN jobs : BatchJobRaises(i)
    \/ BatchGather

SpecDriver == DriverInit /\ [][DriverNext]_vars

---------------------------------------------------------------------------
(* Claims about the table and the drivers *)

\* The tasks of the run that have not finished: their rows are as they
\* were when the run selected them.
Pending == {i \in DOMAIN jobs : jobs[i].pc # "done"}

\* A row resolved with a confidence of at least 0.7.
HighConfidence(row) ==
    /\ row.resolved_address # None
    /\ row.resolution_confidence # NoConfidence
    /\ row.resolution_confidence >= 70

\* C14: a Location with a non-null resolved_address and a confidence of at
\* least 0.7 is never passed to the resolver by the resolve command, in
\* incremental mode whatever the threshold, and in batch mode.
C14_HighConfidenceNotOffered ==
    run.kind = "cli" =>
        \A i \in Pending : ~HighConfidence(store[jobs[i].key])

\* The persist_resolution calls, made for the row of key k, that returned.
PersistedFor(k) ==
    {p \in persisted :
        /\ p.story_id = store[k].story_id
        /\ p.loc_idx = store[k].loc_idx}

\* C15: a Location's resolved_address is null if and only if no resolution
\* of it has ever succeeded (returned non-null, counted and persisted).
C15_NullIffNeverResolved ==
    \A k \in DOMAIN store :
        store[k].resolved_address = None <=> PersistedFor(k) = {}

\* The hash of a (story_id, loc_idx, resolved_address) triple, written out.
TripleHash(story_id, loc_idx, resolved_address) ==
    <<"sha256", 16,
      story_id \o ":" \o ToString(loc_idx) \o ":" \o
          (IF resolved_address = None THEN "None" ELSE resolved_address)>>

\* C16: resolution_hash is a function of (story_id, loc_idx,
\* resolved_address) only: two persist_resolution calls that agree on the
\* triple store the same hash, and every updated row holds the hash of its
\* own story_id, loc_idx and resolved_address.
C16_HashOfTriple ==
    /\ \A p, q \in persisted :
          (/\ p.story_id = q.story_id
           /\ p.loc_idx = q.loc_idx
           /\ p.resolved_address = q.resolved_address)
             => p.resolution_hash = q.resolution_hash
    /\ \A p \in persisted :
          p.resolution_hash =
              TripleHash(p.story_id, p.loc_idx, p.resolved_address)
    /\ \A k \in DOMAIN store :
          PersistedFor(k) # {} =>
              store[k].resolution_hash =
                  TripleHash(store[k].story_id, store[k].loc_idx,
                             store[k].resolved_address)

\* C16 witness: two calls for the same row and the same address, with
\* different confidences, have stored one hash.
C16_Witness ==
    \E p, q \in persisted :
        /\ p.story_id = q.story_id
        /\ p.loc_idx = q.loc_idx
        /\ p.resolved_address = q.resolved_address
        /\ p.resolved_address # None
        /\ p.resolution_confidence # q.resolution_confidence
        /\ p.resolution_hash = q.resolution_hash

\* The tasks inside "async with semaphore".
Resolving == {i \in DOMAIN jobs : jobs[i].pc = "resolving"}

\* C17: resolve_batch returns, once all its tasks are over, a list with one
\* entry per input location in input order: the Resolution of that
\* location, or null when its resolution failed or raised.
C17_BatchResults ==
    (run.kind = "resolve_batch" /\ run.phase = "finished") =>
        /\ \A i \in DOMAIN jobs : jobs[i].pc = "done"
        /\ Len(run.results) = Len(run.locations)
        /\ \A i \in DOMAIN run.locations :
              LET row == store[run.locations[i]]
                  r == run.results[i]
              IN /\ r = jobs[i].resolution
                 /\ jobs[i].raised => r.is_null
                 /\ ~r.is_null =>
                       /\ r.story_id = row.story_id
                       /\ r.loc_idx = row.loc_idx

\* C17 witness: a batch has returned in which the first location's
\* resolution raised and the second gave a Resolution.
C17_Witness ==
    /\ run.kind = "resolve_batch"
    /\ run.phase = "finished"
    /\ Len(run.results) = 2
    /\ jobs[1].raised
    /\ run.results[1].is_null
    /\ ~run.results[2].is_null

\* C18: in resolve_batch and in the resolve command the number of
\* locations whose resolution has started and not finished is at most the
\* configured concurrency.
C18_OuterConcurrency ==
    run.phase = "running" => Cardinality(Resolving) <= run.concurrency

\* C18 witness: with concurrency 1 one resolution is in progress and
\* another location waits for the slot.
C18_Witness ==
    /\ run.phase = "running"
    /\ run.concurrency = 1
    /\ Cardinality(Resolving) = 1
    /\ \E i \in DOMAIN jobs : jobs[i].pc = "waiting"

\* C19: in resolve_batch and in the resolve command, a resolution that
\* completed successfully has been persisted by its task by the time the
\* task is over: whenever the process stops, the row of every location
\* resolved so far in the run is updated.
C19_CompletedIsPersisted ==
    \A i \in DOMAIN jobs :
        (jobs[i].pc = "done" /\ ~jobs[i].resolution.is_null /\ ~jobs[i].raised)
            => LET row == store[jobs[i].key]
                   r == jobs[i].resolution
               IN /\ PersistedFor(jobs[i].key) # {}
                  /\ row.resolved_address = r.resolved_address
                  /\ row.resolution_confidence = r.resolution_confidence
                  /\ row.resolution_source = r.resolution_source

\* The tasks of the resolve command that are over, and those that saved.
Over == {i \in DOMAIN jobs : jobs[i].pc = "done"}
Saved == {i \in DOMAIN jobs : jobs[i].pc = "done" /\ jobs[i].saved}

\* C20: in a run of the resolve command success_count + fail_count is the
\* number of tasks that are over, so n at the end of a run over n
\* locations; the successes are the tasks whose non-null resolution was
\* persisted; a task that raised is one failure.
C20_CountsAddUp ==
    run.kind = "cli" =>
        /\ run.success_count + run.fail_count = Cardinality(Over)
        /\ run.success_count = Cardinality(Saved)
        /\ \A i \in Saved :
              /\ ~jobs[i].resolution.is_null
              /\ ~jobs[i].raised
              /\ PersistedFor(jobs[i].key) # {}
        /\ run.phase = "finished" =>
              run.success_count + run.fail_count = Len(run.offered)

\* C20 witness: a run of the resolve command over two locations has ended
\* with one failure, of a task that raised, and one success.
C20_Witness ==
    /\ run.kind = "cli"
    /\ run.phase = "finished"
    /\ Len(run.offered) = 2
    /\ run.success_count = 1
    /\ run.fail_count = 1
    /\ \E i \in DOMAIN jobs : jobs[i].raised

\* A row as the skip tier's Resolution leaves it when it is persisted.
SkipPersisted(row) ==
    /\ row.resolved_at # NoTime
    /\ row.resolved_address = row.place_name
    /\ row.resolution_confidence = 20

\* The row of key k is as it was when the run selected its candidates: no
\* task of the run has ended for it.
AsSelected(k) ==
    \A i \in DOMAIN jobs : jobs[i].key = k => jobs[i].pc # "done"

\* The keys of a list of locations.
KeysIn(locations) == {locations[i] : i \in DOMAIN locations}

\* C38: a location resolved by the skip tier and persisted is not selected
\* by a later run in batch mode; a later run in incremental mode with the
\* default threshold of 0.7 selects it and gives it to the resolver again;
\* should_skip_resolution is false for it in both modes; and when the
\* incremental run has persisted a skip-tier Resolution for it again, the
\* row is a candidate of the next incremental run as well.
C38_SkipTierReselected ==
    run.kind = "cli" =>
        \A k \in Keys :
            /\ (SkipPersisted(store[k]) /\ AsSelected(k)) =>
                  /\ run.batch =>
                        /\ k \notin KeysIn(run.locations)
                        /\ k \notin KeysIn(run.offered)
                  /\ (~run.batch /\ run.confidence_threshold = 70) =>
                        /\ k \in KeysIn(run.locations)
                        /\ \E i \in DOMAIN jobs : jobs[i].key = k
                  /\ \A incremental \in BOOLEAN :
                        ~ShouldSkipResolution(
                            store[k].story_id, store[k].loc_idx,
                            store[k].resolved_address,
                            store[k].resolution_confidence, incremental)
            /\ \A i \in DOMAIN jobs :
                  (/\ jobs[i].key = k
                   /\ jobs[i].saved
                   /\ jobs[i].resolution.resolution_confidence = 20
                   /\ ~run.batch)
                     => /\ SkipPersisted(store[k])
                        /\ store[k].place_name # None
                        /\ store[k].resolution_confidence < 70

\* An incremental run with the default threshold is resolving a location
\* that the skip tier had resolved before.
C38_Witness ==
    /\ run.kind = "cli"
    /\ ~run.batch
    /\ run.confidence_threshold = 70
    /\ \E i \in DOMAIN jobs :
          /\ jobs[i].pc = "resolving"
          /\ SkipPersisted(store[jobs[i].key])

---------------------------------------------------------------------------
\* Clustering (cluster.py). Locations lie on one meridian: resolved_lat is
\* the distance north of a reference point in metres and resolved_lon is the
\* same for all, so that the haversine distance of two points is the
\* absolute difference of their positions.

\* The merge threshold of cluster_locations, in metres.
MERGE_THRESHOLD_METERS == 5000

\* A row of the clustering query: the first resolved location of a story.
Loc(story_id, resolved_lat) ==
    [story_id |-> story_id, resolved_lat |-> resolved_lat]

RECURSIVE SumLat(_)
SumLat(locs) ==
    IF locs = <<>> THEN 0 ELSE Head(locs).resolved_lat + SumLat(Tail(locs))

\* np.mean of the positions of a non-empty list: an exact fraction.
Mean(locs) == [num |-> SumLat(locs), den |-> Len(locs)]

\* haversine_distance between two centres on the meridian, in metres, as a
\* fraction.
haversine_distance(c1, c2) ==
    LET d == c1.num * c2.den - c2.num * c1.den
    IN [num |-> IF d < 0 THEN -d ELSE d, den |-> c1.den * c2.den]

\* distance < merge_threshold_meters, and a test that lets the threshold in.
Below_OrEqual(distance, metres) == distance.num <= metres * distance.den
Below(distance, metres) == distance.num < metres * distance.den

\* The cluster built from one DBSCAN group.
GroupCluster(cluster_locs, zoom_level, precision_type) ==
    [center_lat |-> Mean(cluster_locs),
     locations |-> cluster_locs,
     zoom_level |-> zoom_level,
     precision_type |-> precision_type]

AddressClusters(groups) ==
    [i \in DOMAIN groups |-> GroupCluster(groups[i], 13, "address")]
CityClusters(groups) ==
    [i \in DOMAIN groups |-> GroupCluster(groups[i], 10, "city")]

\* The overlap test of both merge passes.
Overlap(a, b) ==
    Below(haversine_distance(a.center_lat, b.center_lat),
          MERGE_THRESHOLD_METERS)

MinOf(S) == CHOOSE x \in S : \A y \in S : x <= y

\* First pass: each city cluster, in order, is merged into the first address
\* cluster within the threshold, whose centre is recomputed at once; a city
\* cluster that overlaps none is kept after the address clusters.
RECURSIVE MergeCities(_, _, _)
MergeCities(address_clusters, city_clusters, kept) ==
    IF city_clusters = <<>>
    THEN address_clusters \o kept
    ELSE LET city_cluster == Head(city_clusters)
             hits == {a \in DOMAIN address_clusters :
                         Overlap(city_cluster, address_clusters[a])}
         IN IF hits = {}
            THEN MergeCities(address_clusters, Tail(city_clusters),
                             Append(kept, city_cluster))
            ELSE LET a == MinOf(hits)
                     locs == address_clusters[a].locations
                                 \o city_cluster.locations
                 IN MergeCities(
                        [address_clusters EXCEPT
                            ![a].locations = locs,
                            ![a].center_lat = Mean(locs)],
                        Tail(city_clusters), kept)

\* The locations of the clusters with indices js, by rising index.
RECURSIVE LocationsOf(_, _)
LocationsOf(merged_clusters, js) ==
    IF js = {} THEN <<>>
    ELSE LET j == MinOf(js)
         IN merged_clusters[j].locations
                \o LocationsOf(merged_clusters, js \ {j})

\* Second pass: each cluster not yet merged takes in every later cluster,
\* not yet merged, whose centre is within the threshold of its own.
RECURSIVE MergeOverlapping(_, _, _)
MergeOverlapping(merged_clusters, i, merged_indices) ==
    IF i > Len(merged_clusters) THEN <<>>
    ELSE IF i \in merged_indices
    THEN MergeOverlapping(merged_clusters, i + 1, merged_indices)
    ELSE LET cluster_a == merged_clusters[i]
             merged_with ==
                 {j \in (i + 1)..Len(merged_clusters) :
                     /\ j \notin merged_indices
                     /\ Overlap(cluster_a, merged_clusters[j])}
             all_locations ==
                 cluster_a.locations
                     \o LocationsOf(merged_clusters, merged_with)
             merged_cluster ==
                 [center_lat |-> Mean(all_locations),
                  locations |-> all_locations,
                  zoom_level |-> 13,
                  precision_type |-> "address"]
         IN <<IF merged_with = {} THEN cluster_a ELSE merged_cluster>>
                \o MergeOverlapping(merged_clusters, i + 1,
                                    merged_indices \cup merged_with)

\* cluster_locations, from the groups DBSCAN found on.
ClusterLocations(data) ==
    MergeOverlapping(
        MergeCities(AddressClusters(data.address), CityClusters(data.city),
                    <<>>),
        1, {})

\* "Deduplicate: keep only first location per story"
RECURSIVE FirstPerStory(_, _)
FirstPerStory(all_locations, seen_stories) ==
    IF all_locations = <<>> THEN <<>>
    ELSE LET loc == Head(all_locations)
         IN IF loc.story_id \in seen_stories
            THEN FirstPerStory(Tail(all_locations), seen_stories)
            ELSE <<loc>> \o FirstPerStory(Tail(all_locations),
                                          seen_stories \cup {loc.story_id})

Deduplicate_KeepAll(all_locations) == all_locations
Deduplicate(all_locations) == FirstPerStory(all_locations, {})

\* "[loc for loc in locations if loc['resolved_precision'] in (...)]"
WithPrecision(locations, precisions) ==
    LET Test(loc) == loc.resolved_precision \in precisions
    IN SelectSeq(locations, Test)

\* The labels DBSCAN gave, without the noise label, in the order in which
\* they first occur (the keys of cluster_groups).
RECURSIVE LabelsOf(_, _)
LabelsOf(locs, seen) ==
    IF locs = <<>> THEN <<>>
    ELSE LET label == Head(locs).label
         IN IF label = -1 \/ label \in seen
            THEN LabelsOf(Tail(locs), seen)
            ELSE <<label>> \o LabelsOf(Tail(locs), seen \cup {label})

\* cluster_groups: the locations by label, noise points skipped.  The label
\* of a location is the one clustering.labels_ has for it.
ClusterGroups(locs) ==
    LET labels == LabelsOf(locs, {})
        Group(label) ==
            LET Test(loc) == loc.label = label
                members == SelectSeq(locs, Test)
            IN [i \in DOMAIN members |->
                   Loc(members[i].story_id, members[i].resolved_lat)]
    IN [k \in DOMAIN labels |-> Group(labels[k])]

\* The groups cluster_locations builds from the rows of its query.
GroupsOf(all_locations) ==
    LET locations == Deduplicate(all_locations)
    IN [address |->
            ClusterGroups(WithPrecision(locations, {"address", "street"})),
        city |-> ClusterGroups(WithPrecision(locations, {"city", "region"}))]

\* A row of the query, with the label DBSCAN gives the location.
Row(story_id, resolved_lat, resolved_precision, label) ==
    [story_id |-> story_id, resolved_lat |-> resolved_lat,
     resolved_precision |-> resolved_precision, label |-> label]

\* Results of the query: stories with two resolved locations 6 km apart;
\* a noise point, a country-level location and city-level locations.
QueryResults ==
    { <<Row("s1", 0, "address", 0), Row("s1", 6000, "address", 1),
        Row("s2", 100, "street", 0), Row("s2", 6100, "address", 1)>>,
      <<Row("s1", 0, "address", 0), Row("s2", 50, "address", -1),
        Row("s3", 3000, "city", 0), Row("s3", 9000, "city", 1),
        Row("s4", 9500, "region", 1), Row("s4", 0, "address", 0),
        Row("s2", 70000, "country", 0)>>,
      <<Row("s1", 0, "city", 0), Row("s2", 100, "address", 2),
        Row("s1", 200, "address", 2), Row("s3", 8000, "address", 5),
        Row("s4", 8100, "address", 5), Row("s3", 300, "city", 0)>> }

\* The data sets: three address groups 4.9 km and 5.1 km apart in every
\* order, groups exactly 5 km apart, a chain of groups 4.9 km apart, address
\* and city groups together, city groups alone, a third address group 7 km
\* from the first of a pair, a city group between an address group and
\* another city group, and no group at all.
Orders3 == {p \in [1..3 -> 1..3] : \A i, j \in 1..3 : p[i] = p[j] => i = j}

ThreeGroups ==
    <<<<Loc("s1", 0)>>, <<Loc("s2", 4900)>>, <<Loc("s3", -5100)>>>>

ChainGroups ==
    <<<<Loc("s1", 0)>>, <<Loc("s2", 4900)>>, <<Loc("s3", 9800)>>>>

Datasets ==
    {[address |-> [i \in 1..3 |-> ThreeGroups[p[i]]], city |-> <<>>] :
        p \in Orders3}
    \cup
    {[address |-> [i \in 1..3 |-> ChainGroups[p[i]]], city |-> <<>>] :
        p \in Orders3}
    \cup
    {[address |-> <<<<Loc("s1", 0)>>, <<Loc("s2", 5000)>>>>, city |-> <<>>],
     [address |-> <<<<Loc("s2", 5000)>>, <<Loc("s1", 0)>>>>, city |-> <<>>],
     [address |-> <<<<Loc("s2", 200), Loc("s1", 0)>>>>,
      city |-> <<<<Loc("s4", 3000)>>, <<Loc("s3", 9000)>>>>],
     [address |-> <<>>, city |-> <<<<Loc("s3", 0)>>, <<Loc("s1", 1000)>>>>],
     [address |-> <<<<Loc("s1", 0)>>, <<Loc("s2", 4900)>>, <<Loc("s3", 7000)>>>>,
      city |-> <<>>],
     [address |-> <<<<Loc("s1", 0)>>>>,
      city |-> <<<<Loc("s3", 5500)>>, <<Loc("s4", 4000)>>>>],
     [address |-> <<>>, city |-> <<>>]}
    \cup {GroupsOf(all_locations) : all_locations \in QueryResults}

\* The story ids, in the order in which Python compares them.
StoryOrder == <<"s1", "s2", "s3", "s4">>
Rank(story_id) == CHOOSE i \in DOMAIN StoryOrder : StoryOrder[i] = story_id

\* sorted(ids): insertion into a sorted list, duplicates kept.
RECURSIVE Insert(_, _)
Insert(id, sorted) ==
    IF sorted = <<>> THEN <<id>>
    ELSE IF Rank(id) <= Rank(Head(sorted)) THEN <<id>> \o sorted
    ELSE <<Head(sorted)>> \o Insert(id, Tail(sorted))

RECURSIVE SortedIds(_)
SortedIds(ids) ==
    IF ids = <<>> THEN <<>> ELSE Insert(Head(ids), SortedIds(Tail(ids)))

\* The story ids of a cluster as listed, and as save_cluster sorts them.
ListedStoryIds(cluster) ==
    [i \in DOMAIN cluster.locations |-> cluster.locations[i].story_id]
StoryIds_Unsorted(cluster) == ListedStoryIds(cluster)
StoryIds(cluster) == SortedIds(ListedStoryIds(cluster))

\* The cluster_id save_cluster computes.
ClusterId(cluster) ==
    <<"cluster_", Sha256Hex16(JsonList(StoryIds(cluster)))>>

\* The row save_cluster writes (created_at, a default of the table, is left
\* out).
ClusterRow(cluster, summary) ==
    [cluster_id |-> ClusterId(cluster),
     center_lat |-> cluster.center_lat,
     zoom_level |-> cluster.zoom_level,
     story_ids_json |-> JsonList(StoryIds(cluster)),
     summary |-> summary.summary,
     key_themes_json |-> JsonList(summary.key_themes),
     story_count |-> summary.story_count,
     date_range |-> summary.date_range]

\* INSERT OR REPLACE on the primary key cluster_id.
InsertOrReplace(table, row) ==
    {r \in table : r.cluster_id # row.cluster_id} \cup {row}

\* save_cluster: the table after the call.
SaveCluster(table, cluster, summary) ==
    InsertOrReplace(table, ClusterRow(cluster, summary))

\* The record of a save_cluster call: the ids as listed, the id returned.
SaveRecord(cluster) ==
    [listed |-> ListedStoryIds(cluster), cluster_id |-> ClusterId(cluster)]

\* What summarize_cluster returns: the model's summary, or the fallback
\* built after an error.
Summaries(cluster) ==
    {[summary |-> "narrative", key_themes |-> <<"theme">>,
      story_count |-> Len(cluster.locations), date_range |-> "1976-1985"],
     [summary |-> "fallback", key_themes |-> <<>>,
      story_count |-> Len(cluster.locations), date_range |-> "unknown"]}

\* save_cluster called on its own: clusters whose locations are the stories
\* of a non-empty set, each once, listed in any order.
MaxSaves == 2

SaveStories == {"s1", "s2", "s3"}
SavePosition(story_id) == 1000 * Rank(story_id)

SaveLists ==
    {l \in UNION {[1..n -> SaveStories] : n \in 1..3} :
        \A i, j \in DOMAIN l : l[i] = l[j] => i = j}

SaveClusters ==
    {GroupCluster([i \in DOMAIN l |-> Loc(l[i], SavePosition(l[i]))],
                  13, "address") : l \in SaveLists}

SaveInit ==
    /\ clock = 0
    /\ lastRead = 0
    /\ limiters = <<>>
    /\ admitLog = <<>>
    /\ clients = <<>>
    /\ google = FALSE
    /\ rt = <<>>
    /\ NoDrivers
    /\ NoSync

SaveClusterCall ==
    /\ Len(saveLog) < MaxSaves
    /\ \E cluster \in SaveClusters :
        \E summary \in Summaries(cluster) :
            /\ clusterTable' = SaveCluster(clusterTable, cluster, summary)
            /\ saveLog' = Append(saveLog, SaveRecord(cluster))
    /\ UNCHANGED <<clock, lastRead, limiters, admitLog, clients, google, rt,
                   driverVars, dataset, ccmd, writers, laterVars>>

SaveNext == SaveClusterCall

SpecSave == SaveInit /\ [][SaveNext]_vars

\* The set of the elements of a list.
Members(list) == {list[i] : i \in DOMAIN list}

\* C21: the cluster_id depends only on the set of member story ids: calls
\* of save_cluster for the same stories in any order return the same id, the
\* id is the hash of the JSON text of the sorted ids, and the table holds
\* exactly one row for each id returned.
C21_ClusterIdOfMembers ==
    /\ \A i, j \in DOMAIN saveLog :
          Members(saveLog[i].listed) = Members(saveLog[j].listed)
              => saveLog[i].cluster_id = saveLog[j].cluster_id
    /\ \A i \in DOMAIN saveLog :
          /\ saveLog[i].cluster_id =
                 <<"cluster_",
                   <<"sha256", 16, JsonList(SortedIds(saveLog[i].listed))>>>>
          /\ Cardinality({r \in clusterTable :
                             r.cluster_id = saveLog[i].cluster_id}) = 1

\* The same stories saved twice in different orders and with different
\* summaries: one row, that of the second call.
C21_Witness ==
    /\ Len(saveLog) = 2
    /\ saveLog[1].listed = <<"s3", "s1">>
    /\ saveLog[2].listed = <<"s1", "s3">>
    /\ Cardinality(clusterTable) = 1
    /\ \E r \in clusterTable : r.summary = "fallback"

---------------------------------------------------------------------------
\* The cluster commands: the "cluster" subcommand of cli.py and the command
\* of the same name in cluster.py, which is run with python -m.

ClusterEntries == {"cli", "module"}

NoCommand ==
    [pc |-> "idle", entry |-> "cli", force |-> FALSE, before |-> {},
     clusters |-> <<>>, saved_count |-> 0]

RECURSIVE SaveAll(_, _, _)
\* The table after save_cluster for each cluster in turn, with the summaries
\* of one kind.
SaveAll(table, clusters, kind) ==
    IF clusters = <<>> THEN table
    ELSE LET clus == Head(clusters)
             summary == CHOOSE x \in Summaries(clus) : x.summary = kind
         IN SaveAll(SaveCluster(table, clus, summary), Tail(clusters), kind)

\* The tables a command finds: none yet, or the clusters an earlier run of
\* the cli.py command saved for some data.
EarlierTables ==
    {{}} \cup
    {SaveAll({}, ClusterLocations(d), kind) :
        d \in Datasets, kind \in {"narrative", "fallback"}}

ClusterInit ==
    /\ clock = 0
    /\ lastRead = 0
    /\ limiters = <<>>
    /\ admitLog = <<>>
    /\ clients = <<>>
    /\ google = FALSE
    /\ rt = <<>>
    /\ geo = <<>>
    /\ skip = <<>>
    /\ store = <<>>
    /\ run = <<>>
    /\ jobs = <<>>
    /\ persisted = {}
    /\ dataset \in Datasets
    /\ clusterTable \in EarlierTables
    /\ ccmd = NoCommand
    /\ saveLog = <<>>
    /\ NoWriters
    /\ NoSync
    /\ NoHarvest

\* The existence check of cli.py: with force the stored clusters are
\* deleted, without force stored clusters end the command.
CliCheck(force, table) ==
    IF force /\ table # {} THEN [exit |-> FALSE, table |-> {}]
    ELSE IF table # {} THEN [exit |-> TRUE, table |-> table]
    ELSE [exit |-> FALSE, table |-> table]

\* The existence check of cluster.py: made only without force; nothing is
\* deleted.
ModuleCheck(force, table) ==
    IF ~force /\ table # {} THEN [exit |-> TRUE, table |-> table]
    ELSE [exit |-> FALSE, table |-> table]

\* A cluster command from its start to the first summary: the existence
\* check, then cluster_locations; no cluster ends the command.
ClusterCommand(entry, force) ==
    /\ ccmd.pc = "idle"
    /\ LET check == IF entry = "cli" THEN CliCheck(force, clusterTable)
                    ELSE ModuleCheck(force, clusterTable)
           clusters == IF check.exit THEN <<>>
                       ELSE ClusterLocations(dataset)
       IN /\ clusterTable' = check.table
          /\ ccmd' = [pc |-> IF clusters = <<>> THEN "done" ELSE "saving",
                      entry |-> entry,
                      force |-> force,
                      before |-> clusterTable,
                      clusters |-> clusters,
                      saved_count |-> 0]
    /\ UNCHANGED <<clock, lastRead, limiters, admitLog, clients, google, rt,
                   driverVars, dataset, saveLog, writers, laterVars>>

\* cli.py: the next cluster is summarized (awaited) and saved.
CliSaveNext ==
    /\ ccmd.pc = "saving"
    /\ ccmd.entry = "cli"
    /\ LET clus == ccmd.clusters[ccmd.saved_count + 1] IN
        /\ \E summary \in Summaries(clus) :
              clusterTable' = SaveCluster(clusterTable, clus, summary)
        /\ saveLog' = Append(saveLog, SaveRecord(clus))
        /\ ccmd' = [ccmd EXCEPT
                       !.saved_count = @ + 1,
                       !.pc = IF ccmd.saved_count + 1 = Len(ccmd.clusters)
                              THEN "done" ELSE "saving"]
    /\ UNCHANGED <<clock, lastRead, limiters, admitLog, clients, google, rt,
                   driverVars, dataset, writers, laterVars>>

\* cluster.py: summarize_cluster is called without await, so save_cluster
\* gets a coroutine and raises TypeError at summary["summary"], before its
\* INSERT is executed; the command ends there.
ModuleSaveNext ==
    /\ ccmd.pc = "saving"
    /\ ccmd.entry = "module"
    /\ ccmd' = [ccmd EXCEPT !.pc = "crashed"]
    /\ UNCHANGED <<clock, lastRead, limiters, admitLog, clients, google, rt,
                   driverVars, dataset, clusterTable, saveLog, writers, laterVars>>

ClusterNext ==
    \/ \E entry \in ClusterEntries, force \in BOOLEAN :
          ClusterCommand(entry, force)
    \/ CliSaveNext
    \/ ModuleSaveNext

SpecCluster == ClusterInit /\ [][ClusterNext]_vars

\* The ids of the rows of a table, and of a list of clusters.
TableIds(table) == {r.cluster_id : r \in table}
ComputedIds(clusters) ==
    {<<"cluster_",
       <<"sha256", 16, JsonList(SortedIds(ListedStoryIds(clusters[i])))>>>> :
        i \in DOMAIN clusters}

\* C22: a cluster command without force that finds stored clusters does no
\* clustering and no save and leaves the table as it was; after a command
\* with force, the table holds exactly the clusters computed in that run.
C22_ForceReplacesAll ==
    /\ (ccmd.pc # "idle" /\ ~ccmd.force /\ ccmd.before # {})
          => /\ ccmd.pc = "done"
             /\ ccmd.clusters = <<>>
             /\ saveLog = <<>>
             /\ clusterTable = ccmd.before
    /\ (ccmd.pc \in {"done", "crashed"} /\ ccmd.force)
          => /\ TableIds(clusterTable) = ComputedIds(ccmd.clusters)
             /\ Cardinality(clusterTable) = Len(ccmd.clusters)

\* The story ids of a list of locations.
StoriesOf(locs) == {locs[i].story_id : i \in DOMAIN locs}

\* Two groups whose centres are 5 km or more apart.
Apart(g1, g2) ==
    LET d == SumLat(g1) * Len(g2) - SumLat(g2) * Len(g1)
    IN (IF d < 0 THEN -d ELSE d) >= 5000 * Len(g1) * Len(g2)

\* C23: clusters are merged only when their centres are strictly less than
\* 5 km apart: in the clusters returned for address groups alone, no group 5
\* km or more from the group a returned cluster starts with is in that
\* cluster; for groups 4.9 km apart and a third 5.1 km away, in any order,
\* the pair comes back as one cluster and the third alone.
C23_MergeBelowThreshold ==
    (ccmd.pc # "idle" /\ ccmd.clusters # <<>> /\ dataset.city = <<>>)
        => /\ \A i \in DOMAIN ccmd.clusters :
                \A a, b \in DOMAIN dataset.address :
                    LET stories == StoriesOf(ccmd.clusters[i].locations)
                        first == ccmd.clusters[i].locations[1].story_id
                    IN (/\ first = dataset.address[a][1].story_id
                        /\ StoriesOf(dataset.address[b]) \subseteq stories)
                          => ~Apart(dataset.address[a], dataset.address[b])
           /\ (\E p \in Orders3 :
                   dataset.address = [k \in 1..3 |-> ThreeGroups[p[k]]])
                 => {StoriesOf(ccmd.clusters[i].locations) :
                        i \in DOMAIN ccmd.clusters}
                      = {{"s1", "s2"}, {"s3"}}

\* The 5.1 km group is listed between the two that are 4.9 km apart; these
\* two come back merged, with the street zoom, and the third alone after.
C23_Witness ==
    /\ ccmd.pc = "done"
    /\ dataset.address =
           <<<<Loc("s2", 4900)>>, <<Loc("s3", -5100)>>, <<Loc("s1", 0)>>>>
    /\ Len(ccmd.clusters) = 2
    /\ ccmd.clusters[1].locations = <<Loc("s2", 4900), Loc("s1", 0)>>
    /\ ccmd.clusters[1].zoom_level = 13
    /\ ccmd.clusters[2].locations = <<Loc("s3", -5100)>>

\* cluster_locations has returned clusters.
Clustered == ccmd.pc # "idle" /\ ccmd.clusters # <<>>

\* C34: the second merge pass leaves no pair to merge: no two address-level
\* clusters of the returned list have centres less than 5 km apart, and the
\* address groups that come back in one cluster are less than 5 km from one
\* another.
C34_SecondPassFixpoint ==
    Clustered =>
        /\ \A i, j \in DOMAIN ccmd.clusters :
              (/\ i < j
               /\ ccmd.clusters[i].precision_type = "address"
               /\ ccmd.clusters[j].precision_type = "address")
                 => Apart(ccmd.clusters[i].locations, ccmd.clusters[j].locations)
        /\ dataset.city = <<>> =>
              \A i \in DOMAIN ccmd.clusters :
                  \A a, b \in DOMAIN dataset.address :
                      LET stories == StoriesOf(ccmd.clusters[i].locations)
                      IN (/\ StoriesOf(dataset.address[a]) \subseteq stories
                          /\ StoriesOf(dataset.address[b]) \subseteq stories)
                            => ~Apart(dataset.address[a], dataset.address[b])

\* The locations of the groups with indices js, one list.
RECURSIVE Joined(_, _)
Joined(groups, js) ==
    IF js = {} THEN <<>>
    ELSE LET j == CHOOSE x \in js : TRUE
         IN groups[j] \o Joined(groups, js \ {j})

\* A city group that is 5 km or more from the centre of every address
\* group, and from every centre an address cluster can have after taking in
\* other city groups.
FarFromAddresses(c) ==
    \A a \in DOMAIN dataset.address :
        \A others \in SUBSET (DOMAIN dataset.city \ {c}) :
            Apart(dataset.address[a] \o Joined(dataset.city, others),
                  dataset.city[c])

\* C35: a city group within 5 km of no address-level centre in the first
\* pass comes back as a cluster of its own, city-level with zoom 10, with
\* exactly its members.
C35_CityKeptApart ==
    Clustered =>
        \A c \in DOMAIN dataset.city :
            FarFromAddresses(c) =>
                \E i \in DOMAIN ccmd.clusters :
                    /\ ccmd.clusters[i].locations = dataset.city[c]
                    /\ ccmd.clusters[i].zoom_level = 10
                    /\ ccmd.clusters[i].precision_type = "city"

\* The stories of the groups DBSCAN found.
Grouped ==
    UNION {StoriesOf(dataset.address[a]) : a \in DOMAIN dataset.address}
        \cup UNION {StoriesOf(dataset.city[c]) : c \in DOMAIN dataset.city}

\* The places a story has in the returned clusters: cluster and position.
PlacesOf(story_id) ==
    UNION {{<<i, k>> : k \in {n \in DOMAIN ccmd.clusters[i].locations :
                  ccmd.clusters[i].locations[n].story_id = story_id}} :
           i \in DOMAIN ccmd.clusters}

\* C36: the merge passes neither lose nor duplicate members: every story of
\* a DBSCAN group is in exactly one returned cluster, once; no other story
\* is in a returned cluster; distinct returned clusters have distinct
\* cluster_ids, so that each one saved has its own row.
C36_MembersPartitioned ==
    Clustered =>
        /\ \A story_id \in Grouped : Cardinality(PlacesOf(story_id)) = 1
        /\ \A i \in DOMAIN ccmd.clusters :
              StoriesOf(ccmd.clusters[i].locations) \subseteq Grouped
        /\ Cardinality(ComputedIds(ccmd.clusters)) = Len(ccmd.clusters)
        /\ (ccmd.entry = "cli" /\ ccmd.pc = "done" /\ ccmd.before = {})
              => Cardinality(clusterTable) = Len(ccmd.clusters)

\* Stories with two resolved locations each: the second ones are dropped;
\* the city groups and the address groups of the third result are merged
\* and come back as two clusters, which are saved as two rows.
C36_Witness ==
    /\ ccmd.pc = "done"
    /\ ccmd.entry = "cli"
    /\ dataset = GroupsOf(<<Row("s1", 0, "city", 0), Row("s2", 100, "address", 2),
                            Row("s1", 200, "address", 2), Row("s3", 8000, "address", 5),
                            Row("s4", 8100, "address", 5), Row("s3", 300, "city", 0)>>)
    /\ Len(ccmd.clusters) = 2
    /\ StoriesOf(ccmd.clusters[1].locations) = {"s1", "s2"}
    /\ StoriesOf(ccmd.clusters[2].locations) = {"s3", "s4"}
    /\ Cardinality(clusterTable) = 2

---------------------------------------------------------------------------
\* More claims about resolve_async.

\* A call classified simple without a canonical address has returned.
SimpleWithoutAddress(t) ==
    /\ Done(t)
    /\ rt[t].classification.category = "simple"
    /\ rt[t].classification.simple_address \in {None, ""}

\* C24: a call classified simple without a canonical address geocodes the
\* original place name through the cascade and returns a simple-tier
\* Resolution of confidence 0.85, with no address-lookup call.
C24_SimpleWithoutAddress ==
    \A t \in DOMAIN rt :
        SimpleWithoutAddress(t) =>
            /\ ~rt[t].result.is_null
            /\ rt[t].calls.geocode >= 1
            /\ rt[t].calls.find = 0
            /\ rt[t].result.resolution_confidence = 85
            /\ "tier" \in JsonKeys(rt[t].result.resolution_source)
            /\ JsonGet(rt[t].result.resolution_source, "tier") = "\"simple\""

\* The fields of a Resolution and the keys of its provenance.
ResolutionFields ==
    {"is_null", "story_id", "loc_idx", "resolved_address", "resolved_lat",
     "resolved_lon", "resolved_precision", "resolution_confidence",
     "resolution_source", "resolved_at"}
ProvenanceKeys ==
    {"tier", "reason", "url", "snippet", "geocoder", "is_residence",
     "corroboration", "concerns"}

\* C25: every non-null result of resolve_async has the same top-level
\* fields, and its resolution_source has the same keys, the tier among them.
C25_UniformResolution ==
    \A t \in DOMAIN rt :
        (Done(t) /\ ~rt[t].result.is_null) =>
            /\ DOMAIN rt[t].result = ResolutionFields
            /\ JsonKeys(rt[t].result.resolution_source) = ProvenanceKeys

\* C26: in the research tier the geocode step has its own budget of two
\* attempts: an attempt that fails (no result, or an exception) is followed
\* after a delay of 1 s by a second one, there is never a third, and the
\* call returns a Resolution once the budget is spent.
C26_GeocodeBudget ==
    \A t \in DOMAIN rt :
        ResearchWithAddress(t) =>
            /\ ~rt[t].result.is_null
            /\ Len(rt[t].geo_log) \in 1..2
            /\ rt[t].geo_log[1] # "found" =>
                  /\ Len(rt[t].geo_log) = 2
                  /\ rt[t].geo_sleeps = <<1>>

---------------------------------------------------------------------------
(* LocationResolver.resolve, the synchronous call *)

\* What a call of b.FindPreciseAddress or of geocode() gave: a value, or an
\* exception ("raised"); "unasked" when the call was not made.
Returned(value) == [kind |-> "returned", value |-> value, msg |-> <<>>]
Raised(msg) == [kind |-> "raised", value |-> <<>>, msg |-> msg]
Unasked == [kind |-> "unasked", value |-> <<>>, msg |-> <<>>]

\* Two calls gave the same.
SameResponse(r1, r2) ==
    /\ r1.kind = r2.kind
    /\ r1.kind = "returned" => r1.value = r2.value
    /\ r1.kind = "raised" => r1.msg = r2.msg

\* "Step 3: Build resolution result" of resolve.
SyncResolution(inp, address_resolution, geocode_result, now) ==
    [is_null |-> FALSE,
     story_id |-> inp.story_id,
     loc_idx |-> inp.loc_idx,
     resolved_address |-> address_resolution.address,
     resolved_lat |->
         IF Found(geocode_result) THEN geocode_result.lat
         ELSE address_resolution.lat,
     resolved_lon |->
         IF Found(geocode_result) THEN geocode_result.lon
         ELSE address_resolution.lon,
     resolved_precision |->
         IF Found(geocode_result) THEN geocode_result.precision
         ELSE address_resolution.precision,
     resolution_confidence |-> address_resolution.confidence,
     resolution_source |-> JsonDumps(<<
         <<"url", JsonOpt(address_resolution.source_url)>>,
         <<"snippet", JsonOpt(address_resolution.source_snippet)>>,
         <<"geocoder", JsonOpt(geocode_result.source)>>,
         <<"is_residence", JsonBool(address_resolution.is_residence)>>,
         <<"corroboration", JsonList(address_resolution.corroboration)>>,
         <<"concerns", JsonList(address_resolution.concerns)>> >>),
     resolved_at |-> now]

\* "if address_resolution.address:" the address is geocoded.
SyncGeocodes(find) == find.kind = "returned" /\ Truthy(find.value.address)

\* resolve: one address lookup, whose exception ends the call with None;
\* then one geocode call, whose exception is printed and leaves no result.
Resolve(inp, find, geocode, now) ==
    IF find.kind = "raised" THEN NullResolution
    ELSE SyncResolution(inp, find.value,
                        IF SyncGeocodes(find) /\ geocode.kind = "returned"
                        THEN geocode.value ELSE NoGeocode,
                        now)

\* geocode(address) of the cascade, by what the providers answer.
Geocode(google_outcome, nominatim_outcome) ==
    IF google /\ Found(TryGoogle(google_outcome))
    THEN TryGoogle(google_outcome)
    ELSE TryNominatim(nominatim_outcome)

\* What the address lookup and geocode() may give a call.
FindResponses(world) ==
    {Returned(a) : a \in world.addresses} \cup {Raised(m) : m \in world.messages}
GeocodeResponses(world) ==
    {Returned(Geocode(g, n)) : g \in world.google, n \in world.nominatim}
        \cup {Raised(<<>>)}

NoSyncCall == [pc |-> "idle"]

\* resolve is called for the location the resolve_async task was given,
\* once the task is over.
ResolveCall(world) ==
    /\ rt[1].pc = "done"
    /\ sync.pc = "idle"
    /\ \E find \in FindResponses(world) :
       \E geocode \in IF SyncGeocodes(find) THEN GeocodeResponses(world)
                      ELSE {Unasked} :
          sync' = [pc |-> "done", find |-> find, geocode |-> geocode,
                   result |-> Resolve(rt[1].inp, find, geocode, clock)]
    /\ UNCHANGED <<clock, lastRead, limiters, admitLog, clients, google, rt,
                   driverVars, clusterVars, writers, cache, web>>

BothInit ==
    /\ clock = 0
    /\ lastRead = 0
    /\ limiters = GlobalLimiters
    /\ admitLog = [l \in DOMAIN GlobalLimiters |-> <<>>]
    /\ clients = <<>>
    /\ google \in BOOLEAN
    /\ rt \in [{1} -> {NewTask(loc) : loc \in Locations}]
    /\ NoDrivers
    /\ sync = NoSyncCall

BothNext ==
    \/ CallNext(FewAnswers)
    \/ ResolveCall(FewAnswers)

\* resolve_async and then resolve, for the same location.
SpecBoth == BothInit /\ [][BothNext]_vars

\* The first response the task's address lookups got, and the response of
\* its first geocode call: a lookup that returns ends the retry loop, and so
\* does a geocode call that returns.
FirstFind(task) ==
    IF task.find_log = <<>> THEN Unasked
    ELSE IF task.find_log[1] = <<"ok">> THEN Returned(task.address_resolution)
    ELSE Raised(task.find_log[1])
FirstGeocode(task) ==
    IF task.geo_log = <<>> THEN Unasked
    ELSE IF task.geo_log[1] = "raised" THEN Raised(<<>>)
    ELSE Returned(task.geocode_result)

\* Both calls got the same responses: whatever both asked was answered the
\* same (geocode is asked about the same address by both only when the task
\* took the research tier).
SameResponses ==
    /\ rt[1].find_log # <<>> => SameResponse(FirstFind(rt[1]), sync.find)
    /\ (~IsSimple(rt[1]) /\ rt[1].geo_log # <<>>
            /\ sync.geocode.kind # "unasked")
          => SameResponse(FirstGeocode(rt[1]), sync.geocode)

\* The fields of a Resolution without its timestamp.
SameValue(r1, r2) ==
    \/ r1.is_null /\ r2.is_null
    \/ /\ ~r1.is_null /\ ~r2.is_null
       /\ r1.resolved_address = r2.resolved_address
       /\ r1.resolved_lat = r2.resolved_lat
       /\ r1.resolved_lon = r2.resolved_lon
       /\ r1.resolved_precision = r2.resolved_precision
       /\ r1.resolution_confidence = r2.resolution_confidence
       /\ r1.resolution_source = r2.resolution_source

\* C31: for the same location and the same responses of the LLM and of the
\* geocoder, resolve and resolve_async return the same value: both None, or
\* Resolutions with the same address, coordinates, precision, confidence
\* and provenance.
C31_SyncEqualsAsync ==
    (Done(1) /\ sync.pc = "done" /\ SameResponses)
        => SameValue(sync.result, rt[1].result)

\* C39: the is_residence flag in the provenance of a research-tier
\* Resolution is the flag the address lookup reported, however the geocode
\* step ended and however many lookups were made; a Resolution of the skip
\* tier or of the simple tier, for which no lookup is made, carries false.
C39_ResidenceFlagKept ==
    \A t \in DOMAIN rt :
        (Done(t) /\ ~rt[t].result.is_null) =>
            LET flag == JsonGet(rt[t].result.resolution_source, "is_residence")
            IN IF rt[t].calls.find > 0
               THEN /\ rt[t].address_resolution.is_residence => flag = "true"
                    /\ ~rt[t].address_resolution.is_residence => flag = "false"
               ELSE flag = "false"

\* A lookup that timed out once and then reported a residence, and a first
\* geocode call that raised: the Resolution carries the flag.
C39_Witness ==
    \E t \in DOMAIN rt :
        /\ Done(t)
        /\ ~rt[t].result.is_null
        /\ rt[t].find_log = <<Timeout, <<"ok">>>>
        /\ rt[t].geo_log # <<>>
        /\ rt[t].geo_log[1] = "raised"
        /\ rt[t].address_resolution.is_residence
        /\ JsonGet(rt[t].result.resolution_source, "is_residence") = "true"

---------------------------------------------------------------------------
\* The precision functions of the cascade on raw responses of every shape.

\* Nominatim: the keys of raw["address"] and raw["type"] ("" when absent).
NominatimRaws ==
    [address : SUBSET {"house_number", "road", "city", "state", "country"},
     type : {"", "house", "road", "administrative"}]

\* Google: geometry.location_type ("" when absent) and the types of the
\* address components.
GoogleRaws ==
    [location_type : {"", "ROOFTOP", "RANGE_INTERPOLATED", "GEOMETRIC_CENTER",
                      "APPROXIMATE"},
     types : SUBSET {"street_address", "route", "locality",
                     "administrative_area_level_1", "country"}]

PrecisionCalls ==
    [pc : {"called"}, provider : {"nominatim"}, raw : NominatimRaws,
     precision : {None}]
    \cup
    [pc : {"called"}, provider : {"google"}, raw : GoogleRaws,
     precision : {None}]

PrecisionInit ==
    /\ clock = 0
    /\ lastRead = 0
    /\ limiters = <<>>
    /\ admitLog = <<>>
    /\ clients = <<>>
    /\ google = FALSE
    /\ rt = <<>>
    /\ geo \in PrecisionCalls
    /\ skip = <<>>
    /\ store = <<>>
    /\ run = <<>>
    /\ jobs = <<>>
    /\ persisted = {}
    /\ NoClustering
    /\ NoWriters
    /\ NoSync
    /\ NoHarvest

\* _determine_precision_nominatim or _determine_precision_google returns.
DeterminePrecision ==
    /\ geo.pc = "called"
    /\ geo' = [geo EXCEPT
                  !.pc = "returned",
                  !.precision =
                      IF geo.provider = "nominatim"
                      THEN DeterminePrecisionNominatim(geo.raw)
                      ELSE DeterminePrecisionGoogle(geo.raw)]
    /\ UNCHANGED <<clock, lastRead, limiters, admitLog, clients, google, rt,
                   skip, store, run, jobs, persisted, clusterVars, writers, laterVars>>

PrecisionNext == DeterminePrecision

SpecPrecision == PrecisionInit /\ [][PrecisionNext]_vars

\* C27: the precision is one of the five tiers; for both providers a
\* rooftop or house-number response maps to address and a response whose
\* only component is the country maps to country.
C27_PrecisionTiers ==
    geo.pc = "returned" =>
        /\ geo.precision \in {"address", "street", "city", "region", "country"}
        /\ geo.provider = "nominatim" =>
              /\ "house_number" \in geo.raw.address => geo.precision = "address"
              /\ (geo.raw.address = {"country"}
                    /\ geo.raw.type \in {"", "administrative"})
                   => geo.precision = "country"
        /\ geo.provider = "google" =>
              /\ geo.raw.location_type = "ROOFTOP" => geo.precision = "address"
              /\ (geo.raw.types = {"country"}
                    /\ geo.raw.location_type
                          \in {"GEOMETRIC_CENTER", "APPROXIMATE"})
                   => geo.precision = "country"

---------------------------------------------------------------------------
\* persist_resolution called by several processes on one database. The
\* UPDATE opens a write transaction, for which SQLite admits one connection
\* at a time, and conn.commit() ends it; a connection that cannot get the
\* write lock within its timeout raises "database is locked".

MaxWriters == 2

\* A location that has no row in the table.
MissingLocation ==
    [story_id |-> "book9_s9", loc_idx |-> 0, place_name |-> "Palo Alto",
     place_type |-> "city", lat |-> None, lon |-> None,
     geo_precision |-> "city", note |-> None]

WriterLocations == {StoryLocations[k] : k \in Keys} \cup {MissingLocation}

\* The resolutions the writers persist: for each location one of the skip
\* tier and one of the research tier; call i builds its dict at time i.
WriterResolutions(i) ==
    {[r EXCEPT !.resolved_at = i] :
        r \in UNION {{d \in DriverResolutions(LocationOf(loc)) :
                        d.resolution_confidence \in {SKIP_CONFIDENCE, 90}} :
                     loc \in WriterLocations}}

\* The tables the writers find.
WriterTables ==
    {t \in [Keys -> EarlierRows] :
        \A k \in Keys :
            /\ t[k] \in RowsOf(StoryLocations[k])
            /\ t[k].resolution_confidence \in {NoConfidence, SIMPLE_CONFIDENCE}}

PersistInit ==
    /\ clock = 0
    /\ lastRead = 0
    /\ limiters = <<>>
    /\ admitLog = <<>>
    /\ clients = <<>>
    /\ google = FALSE
    /\ rt = <<>>
    /\ geo = <<>>
    /\ skip = <<>>
    /\ store \in WriterTables
    /\ run = <<>>
    /\ jobs = <<>>
    /\ persisted = {EarlierCall(store[k]) : k \in {j \in Keys : IsResolved(store[j])}}
    /\ NoClustering
    /\ writers = [calls |-> <<>>, commits |-> <<>>, before |-> store]
    /\ NoSync
    /\ NoHarvest

notWritten ==
    <<clock, lastRead, limiters, admitLog, clients, google, rt, geo, skip,
      run, jobs, clusterVars, laterVars>>

\* A process calls persist_resolution(resolution).
PersistCall ==
    /\ Len(writers.calls) < MaxWriters
    /\ \E resolution \in WriterResolutions(Len(writers.calls) + 1) :
          writers' = [writers EXCEPT
                         !.calls = Append(@, [pc |-> "called",
                                              resolution |-> resolution])]
    /\ UNCHANGED <<store, persisted, notWritten>>

\* The write lock is free when no connection is between its UPDATE and its
\* commit.
WriteLockFree(calls) == \A j \in DOMAIN calls : calls[j].pc # "updating"

\* conn.execute(UPDATE ...): the connection takes the write lock; the change
\* is not visible to others before the commit.
PersistExecute(i) ==
    /\ writers.calls[i].pc = "called"
    /\ WriteLockFree(writers.calls)
    /\ writers' = [writers EXCEPT !.calls[i].pc = "updating"]
    /\ UNCHANGED <<store, persisted, notWritten>>

\* The lock stays taken for longer than the timeout: conn.execute raises
\* and nothing is written.
PersistLocked(i) ==
    /\ writers.calls[i].pc = "called"
    /\ ~WriteLockFree(writers.calls)
    /\ writers' = [writers EXCEPT !.calls[i].pc = "raised"]
    /\ UNCHANGED <<store, persisted, notWritten>>

\* conn.commit(): the UPDATE takes effect as a whole.
PersistCommit(i) ==
    /\ writers.calls[i].pc = "updating"
    /\ store' = PersistResolution(store, writers.calls[i].resolution)
    /\ persisted' = persisted \cup {PersistRecord(writers.calls[i].resolution)}
    /\ writers' = [writers EXCEPT !.calls[i].pc = "committed",
                                  !.commits = Append(@, i)]
    /\ UNCHANGED notWritten

PersistNext ==
    \/ PersistCall
    \/ \E i \in DOMAIN writers.calls : PersistExecute(i)
    \/ \E i \in DOMAIN writers.calls : PersistLocked(i)
    \/ \E i \in DOMAIN writers.calls : PersistCommit(i)

SpecPersist == PersistInit /\ [][PersistNext]_vars

\* The row with the extraction columns of row and the eight resolution
\* columns of a persist_resolution(r) call.
Overwritten(row, r) ==
    [story_id |-> row.story_id,
     loc_idx |-> row.loc_idx,
     place_name |-> row.place_name,
     place_type |-> row.place_type,
     lat |-> row.lat,
     lon |-> row.lon,
     geo_precision |-> row.geo_precision,
     note |-> row.note,
     resolved_address |-> r.resolved_address,
     resolved_lat |-> r.resolved_lat,
     resolved_lon |-> r.resolved_lon,
     resolved_precision |-> r.resolved_precision,
     resolution_confidence |-> r.resolution_confidence,
     resolution_source |-> r.resolution_source,
     resolved_at |-> r.resolved_at,
     resolution_hash |->
         TripleHash(r.story_id, r.loc_idx, r.resolved_address)]

HasKey(row, r) == row.story_id = r.story_id /\ row.loc_idx = r.loc_idx

\* C28: a persist_resolution(r) call that takes effect changes only the
\* eight resolution columns of the row with the key of r: that row keeps
\* its extraction columns and loses its previous resolution, every other
\* row is unchanged, and without a row of that key nothing changes.
C28_PersistFrame ==
    [][\A i \in DOMAIN writers.calls :
          (writers.calls[i].pc = "updating"
              /\ writers'.calls[i].pc = "committed")
            => LET r == writers.calls[i].resolution
               IN /\ DOMAIN store' = DOMAIN store
                  /\ \A k \in DOMAIN store :
                        store'[k] = IF HasKey(store[k], r)
                                    THEN Overwritten(store[k], r)
                                    ELSE store[k]]_vars

\* A call for a location without a row has committed and the table is as it
\* was; then a call has overwritten the earlier resolution of a row.
C28_Witness ==
    /\ writers.commits = <<1, 2>>
    /\ \A k \in DOMAIN store : ~HasKey(store[k], writers.calls[1].resolution)
    /\ \E k \in DOMAIN store :
          /\ HasKey(store[k], writers.calls[2].resolution)
          /\ writers.before[k].resolved_address # None
          /\ store[k].resolved_address # writers.before[k].resolved_address
          /\ store[k].place_name = writers.before[k].place_name
    /\ \E k \in DOMAIN store : store[k] = writers.before[k]

\* The calls that committed for the key of a row, in the order of commit.
CommittedFor(row) ==
    LET Test(i) == HasKey(row, writers.calls[i].resolution)
    IN SelectSeq(writers.commits, Test)

\* C29: whatever the interleaving of concurrent persist_resolution calls, a
\* row no call committed for is as it was, and a row calls committed for
\* holds all eight resolution fields, the hash too, of the last of them.
C29_LastWriteWins ==
    \A k \in DOMAIN store :
        LET done == CommittedFor(store[k])
        IN store[k] =
              IF done = <<>> THEN writers.before[k]
              ELSE Overwritten(writers.before[k],
                               writers.calls[done[Len(done)]].resolution)

\* Two calls for the same row with different addresses committed in the
\* order opposite to that of the calls; the row holds the first call's
\* fields.
C29_Witness ==
    /\ writers.commits = <<2, 1>>
    /\ \E k \in DOMAIN store :
          /\ HasKey(store[k], writers.calls[1].resolution)
          /\ HasKey(store[k], writers.calls[2].resolution)
          /\ writers.calls[1].resolution.resolved_address
                # writers.calls[2].resolution.resolved_address
          /\ store[k].resolved_at = 1
          /\ store[k].resolution_hash =
                 TripleHash(store[k].story_id, store[k].loc_idx,
                            writers.calls[1].resolution.resolved_address)

---------------------------------------------------------------------------
\* Scoped uses of a RateLimiter ("async with limiter: body") by tasks whose
\* body may raise and which may be cancelled while they wait.

\* The body raises: __aexit__ is called with the exception and releases;
\* the task ends with the exception.
ScopedBodyRaises(c) ==
    /\ clients[c].pc = "admitted"
    /\ limiters' = [limiters EXCEPT !["rl"] = ReleaseStep(@)]
    /\ clients' = [clients EXCEPT ![c] = [pc |-> "raised", wake |-> 0]]
    /\ UNCHANGED <<clock, lastRead, admitLog, google, rt, driverVars,
                   clusterVars, writers, laterVars>>

\* The task is cancelled while __aenter__ waits for the semaphore: no slot
\* was taken.
ScopedCancelWaiting(c) ==
    /\ clients[c].pc = "idle"
    /\ ~SemFree(limiters["rl"])
    /\ clients' = [clients EXCEPT ![c] = [pc |-> "cancelled", wake |-> 0]]
    /\ UNCHANGED <<clock, lastRead, limiters, admitLog, google, rt,
                   driverVars, clusterVars, writers, laterVars>>

\* The task is cancelled while acquire sleeps for the rate limit, after
\* the semaphore was taken: CancelledError leaves __aenter__, so the body
\* is not entered and __aexit__ is not called.
ScopedCancelSleeping(c) ==
    /\ clients[c].pc = "sleeping"
    /\ clients' = [clients EXCEPT ![c] = [pc |-> "cancelled", wake |-> 0]]
    /\ UNCHANGED <<clock, lastRead, limiters, admitLog, google, rt,
                   driverVars, clusterVars, writers, laterVars>>

ScopedNext ==
    \/ Tick(MaxTime)
    \/ \E c \in Clients : ClientAcquire(c)
    \/ \E c \in Clients : ClientWake(c)
    \/ \E c \in Clients : ClientRelease(c)
    \/ \E c \in Clients : ScopedBodyRaises(c)
    \/ \E c \in Clients : ScopedCancelWaiting(c)
    \/ \E c \in Clients : ScopedCancelSleeping(c)

SpecScoped == RLInit /\ [][ScopedNext]_vars

\* The tasks that are inside no scoped use: not started or left normally,
\* ended by an exception of the body, or cancelled.
Outside == {c \in Clients : clients[c].pc \in {"idle", "raised", "cancelled"}}

\* C30: the slot a scoped use takes is released exactly once when the use
\* ends, normally, by an exception or by an interruption inside acquire:
\* when no task is inside a scoped use, all max_concurrent slots are free.
C30_SlotsRestored ==
    /\ limiters["rl"].value <= limiters["rl"].max_concurrent
    /\ Outside = Clients =>
          limiters["rl"].value = limiters["rl"].max_concurrent

---------------------------------------------------------------------------
(* resolve_batch with the calls of resolve_async it starts *)

MaxFailing == 1

\* What the LLM and the providers answer in a batch.
BatchAnswers ==
    [classifications |->
        {c \in Classifications : c.category \in {"skip", "research"}},
     addresses |-> {a \in AddressResolutions : a.confidence = 90},
     messages |-> {<<"Request", "Timeout">>, <<"Invalid", "API", "key">>},
     google |-> {NoLocation},
     nominatim |-> {NoLocation},
     horizon |-> 0]

\* "async with semaphore:" of resolve_with_semaphore is entered and
\* resolve_async is called.
BatchEnter(t) ==
    /\ rt[t].pc = "queued"
    /\ SlotFree(run)
    /\ run' = [run EXCEPT !.semaphore = @ - 1]
    /\ rt' = [rt EXCEPT ![t].pc = "start"]
    /\ UNCHANGED <<clock, lastRead, limiters, admitLog, clients, google, geo,
                   skip, store, jobs, persisted, clusterVars, writers, laterVars>>

\* resolve_async has returned: the semaphore is left.
BatchLeave(t) ==
    /\ rt[t].pc = "done"
    /\ run' = Left(run)
    /\ rt' = [rt EXCEPT ![t].pc = "left"]
    /\ UNCHANGED <<clock, lastRead, limiters, admitLog, clients, google, geo,
                   skip, store, jobs, persisted, clusterVars, writers, laterVars>>

\* A task is in asyncio.sleep, or the clock has not moved since it was read.
TimeAwaited ==
    \/ clock <= lastRead
    \/ \E t \in DOMAIN rt :
          /\ rt[t].pc \in {"rate_sleep", "find_backoff", "geo_backoff"}
          /\ clock < rt[t].wake

\* The limiter a task is about to enter.
NextLimiter(task) ==
    IF task.pc = "geo_acquire" THEN GeocodeLimiter ELSE "openai"

\* The event loop has a task to run: one that can enter a semaphore or a
\* limiter, whose sleep is over, or that has returned.
Runnable(t) ==
    \/ rt[t].pc = "queued" /\ SlotFree(run)
    \/ /\ rt[t].pc \in {"start", "find_acquire", "geo_acquire"}
       /\ SemFree(limiters[NextLimiter(rt[t])])
       /\ HasRate(limiters[NextLimiter(rt[t])]) => CanRead
    \/ rt[t].pc \in {"find_backoff", "geo_backoff"} /\ clock >= rt[t].wake
    \/ rt[t].pc = "rate_sleep" /\ clock >= rt[t].wake /\ CanRead
    \/ rt[t].pc = "done"

\* Time passes while something waits for it; the event loop runs the tasks
\* that are ready before it waits for a timer.
BatchTick ==
    /\ TimeAwaited
    /\ \A t \in DOMAIN rt : ~Runnable(t)
    /\ clock' = clock + 1
    /\ UNCHANGED <<lastRead, limiters, admitLog, clients, google, rt,
                   driverVars, clusterVars, writers, laterVars>>

\* The awaited calls of the first MaxFailing tasks may raise.
BatchTaskStep(t) ==
    \/ BatchEnter(t)
    \/ CallGoesOn(t, BatchAnswers)
    \/ t <= MaxFailing /\ CallRaises(t, BatchAnswers)
    \/ BatchLeave(t)

BatchRunInit ==
    /\ clock = 0
    /\ lastRead = 0
    /\ limiters = GlobalLimiters
    /\ admitLog = [l \in DOMAIN GlobalLimiters |-> <<>>]
    /\ clients = <<>>
    /\ google \in BOOLEAN
    /\ rt \in [Tasks -> {[NewTask(loc) EXCEPT !.pc = "queued"] :
                            loc \in {l \in Locations : l.place_type = "city"}}]
    /\ geo = <<>>
    /\ skip = <<>>
    /\ store = <<>>
    /\ \E concurrency \in Concurrencies :
          run = [semaphore |-> concurrency, concurrency |-> concurrency]
    /\ jobs = <<>>
    /\ persisted = {}
    /\ NoClustering
    /\ NoWriters
    /\ NoSync
    /\ NoHarvest

BatchRunNext ==
    \/ BatchTick
    \/ \E t \in DOMAIN rt : BatchTaskStep(t)

\* The event loop runs every task that can go on, every awaited call of the
\* LLM or of a provider returns or raises, and time passes.
BatchFairness ==
    /\ WF_vars(BatchTick)
    /\ \A t \in Tasks : WF_vars(BatchTaskStep(t))

SpecBatch == BatchRunInit /\ [][BatchRunNext]_vars /\ BatchFairness

\* A task holds a provider limiter only inside the call it made under it
\* (or in acquire's own sleep): never while it waits for a limiter or for
\* the outer semaphore, and never in a backoff sleep.
HoldsOnlyInCall ==
    \A t \in DOMAIN rt :
        rt[t].pc \in {"queued", "start", "find_acquire", "geo_acquire",
                      "find_backoff", "geo_backoff", "done", "left"}
            => rt[t].holding = None

\* The calls of one resolution.
WithinBudget ==
    \A t \in DOMAIN rt :
        /\ rt[t].calls.classify <= 1
        /\ rt[t].calls.find <= 3
        /\ rt[t].calls.geocode <= 2

Finished == \A t \in DOMAIN rt : rt[t].pc = "left"

\* C37: a batch over a finite list of locations always finishes when every
\* external call returns or raises: a task holds no provider limiter while
\* it waits for another limiter, for the outer semaphore or in a backoff
\* sleep, and a resolution makes at most 1 classification call, 3 address
\* lookups and 2 geocode calls.
C37_BatchFinishes ==
    /\ [](HoldsOnlyInCall /\ WithinBudget)
    /\ <>[]Finished

\* A batch of concurrency 1 without a Google key is over; one task retried
\* its address lookup after a backoff, and Nominatim's limiter admitted two
\* geocode calls.
C37_Witness ==
    /\ Finished
    /\ run.concurrency = 1
    /\ run.semaphore = 1
    /\ ~google
    /\ \E t \in DOMAIN rt : rt[t].sleeps # <<>>
    /\ Len(admitLog["nominatim"]) >= 2

---------------------------------------------------------------------------
(* WebHarvester.fetch_url and the geocode_cache table *)

\* Times are in hours.  datetime('now') of SQLite is UTC; datetime.now() of
\* Python is the local time, tz hours ahead of UTC.
CACHE_TTL_DAYS == 7
SWEEP_LIMIT == 100
TtlHours == CACHE_TTL_DAYS * 24

MaxAdvances == 3

Urls == {"https://example.org/a", "https://example.org/b"}
Contents == {"", "<html>v1</html>", "<html>v2</html>"}
TimeZones == {-1, 0, 1}
Durations == {1, TtlHours - 1}

\* What requests.get and raise_for_status give: the text of the response, or
\* a RequestException.
HttpResponses ==
    {[kind |-> "ok", text |-> c] : c \in Contents}
        \cup {[kind |-> "error", text |-> None]}

\* "cutoff = datetime.now() - timedelta(days=self.cache_ttl_days)"
Cutoff(local_now) == local_now - TtlHours

\* _get_cached_content: "SELECT content FROM geocode_cache WHERE url = ? AND
\* datetime(fetched_at) > datetime(?)", then "row[0] if row else None".
GetCachedContent(table, url, local_now) ==
    LET rows == {r \in table : r.url = url /\ r.fetched_at > Cutoff(local_now)}
    IN IF rows = {} THEN None ELSE (CHOOSE r \in rows : TRUE).content

\* The row of "INSERT OR REPLACE INTO geocode_cache (url_hash, url, content,
\* fetched_at) VALUES (?, ?, ?, datetime('now'))": title and expires_at get
\* no value and are NULL.
CacheRow(url, content, utc_now) ==
    [url_hash |-> Sha256Hex16(url),
     url |-> url,
     title |-> None,
     content |-> content,
     fetched_at |-> utc_now,
     expires_at |-> NoTime]

\* INSERT OR REPLACE on the primary key url_hash.
ReplaceInCache(table, row) ==
    {r \in table : r.url_hash # row.url_hash} \cup {row}

\* The rows the trigger's subquery selects: "expires_at IS NOT NULL AND
\* datetime(expires_at) < datetime('now')".
Sweepable(table, utc_now) ==
    {r \in table : r.expires_at # NoTime /\ r.expires_at < utc_now}

\* The trigger geocode_cache_cleanup, AFTER INSERT: it deletes the selected
\* rows, "LIMIT 100" of them (any 100 when there are more).
Swept(table, utc_now) ==
    LET expired == Sweepable(table, utc_now)
    IN IF Cardinality(expired) <= SWEEP_LIMIT
       THEN {table \ expired}
       ELSE {table \ gone : gone \in
                {g \in SUBSET expired : Cardinality(g) = SWEEP_LIMIT}}

\* _cache_content: the insert, then the trigger.
CacheContent(table, url, content, utc_now) ==
    Swept(ReplaceInCache(table, CacheRow(url, content, utc_now)), utc_now)

NoFetch == [pc |-> "idle"]

\* Time passes.
Advance ==
    /\ web.advances < MaxAdvances
    /\ \E d \in Durations :
          web' = [web EXCEPT !.now = @ + d, !.advances = @ + 1]
    /\ UNCHANGED <<clock, lastRead, limiters, admitLog, clients, google, rt,
                   driverVars, clusterVars, writers, sync, cache>>

\* fetch_url(url, use_cache): "if cached: return cached"; else the request,
\* whose text is cached and returned; a RequestException gives None.
FetchUrl ==
    \E url \in Urls, use_cache \in BOOLEAN, response \in HttpResponses :
        LET cached == IF use_cache
                      THEN GetCachedContent(cache, url, web.now + web.tz)
                      ELSE None
            hit == use_cache /\ Truthy(cached)
            ok == response.kind = "ok"
        IN /\ \E after \in IF hit \/ ~ok THEN {cache}
                           ELSE CacheContent(cache, url, response.text, web.now) :
                 cache' = after
           /\ web' = [web EXCEPT !.last =
                  [pc |-> "returned", url |-> url, use_cache |-> use_cache,
                   before |-> cache, at |-> web.now,
                   requested |-> ~hit,
                   response |-> IF hit THEN [kind |-> "unasked", text |-> None]
                                ELSE response,
                   result |-> IF hit THEN cached
                              ELSE IF ok THEN response.text ELSE None]]
           /\ UNCHANGED <<clock, lastRead, limiters, admitLog, clients, google,
                          rt, driverVars, clusterVars, writers, sync>>

HarvestInit ==
    /\ clock = 0
    /\ lastRead = 0
    /\ limiters = <<>>
    /\ admitLog = <<>>
    /\ clients = <<>>
    /\ google = FALSE
    /\ rt = <<>>
    /\ geo = <<>>
    /\ skip = <<>>
    /\ store = <<>>
    /\ run = <<>>
    /\ jobs = <<>>
    /\ persisted = {}
    /\ NoClustering
    /\ NoWriters
    /\ NoSync
    /\ cache = {}
    /\ \E tz \in TimeZones :
          web = [now |-> 0, tz |-> tz, advances |-> 0, last |-> NoFetch]

HarvestNext == Advance \/ FetchUrl

SpecHarvest == HarvestInit /\ [][HarvestNext]_vars

\* The entries of a URL, and those fetched less than 7 days before `now`.
EntriesOf(table, url) == {r \in table : r.url = url}
FreshEntries(table, url, utc_now) ==
    {r \in EntriesOf(table, url) : utc_now - r.fetched_at < TtlHours}

\* C32: with caching enabled fetch_url returns the stored content without a
\* request exactly when the cache has an entry of the URL fetched less than
\* 7 days ago; otherwise it makes the request, and on success the entry is
\* replaced by the new content, one entry per URL; a failed request gives
\* None and leaves the cache as it was.
C32_FetchUrlCache ==
    /\ \A url \in Urls : Cardinality(EntriesOf(cache, url)) <= 1
    /\ (web.last.pc = "returned" /\ web.last.use_cache) =>
          LET call == web.last
              fresh == FreshEntries(call.before, call.url, call.at)
          IN /\ call.requested <=> (fresh = {})
             /\ ~call.requested =>
                   /\ \E r \in fresh : call.result = r.content
                   /\ cache = call.before
             /\ (call.requested /\ call.response.kind = "ok") =>
                   /\ call.result = call.response.text
                   /\ \E r \in cache :
                         /\ EntriesOf(cache, call.url) = {r}
                         /\ r.content = call.response.text
                         /\ r.fetched_at = call.at
                   /\ \A u \in Urls \ {call.url} :
                         EntriesOf(cache, u) = EntriesOf(call.before, u)
             /\ (call.requested /\ call.response.kind = "error") =>
                   /\ call.result = None
                   /\ cache = call.before

\* The entries past their 7-day expiry.
PastExpiry(table, utc_now) ==
    {r \in table : utc_now - r.fetched_at > TtlHours}

\* C33: an insert of the harvester sweeps the entries past their 7-day
\* expiry, up to 100 of them, and deletes no entry that is still valid.
C33_SweepOnInsert ==
    (web.last.pc = "returned" /\ web.last.requested
        /\ web.last.response.kind = "ok") =>
        LET call == web.last
            rest == {r \in call.before : r.url # call.url}
        IN /\ Cardinality(PastExpiry(rest, call.at)) <= SWEEP_LIMIT
                 => PastExpiry(cache, call.at) = {}
           /\ \A r \in rest \ PastExpiry(rest, call.at) : r \in cache

=============================================================================
